---- MODULE Spec2Model ----
(***************************************************************************)
(* Model of the FSearch database engine (src/src/fsearch_database.c): the  *)
(* work-queue thread and its handlers, the index store, the search views,  *)
(* the store mutex, the store's monitor thread and the idle queue that     *)
(* delivers events to the embedder.                                        *)
(***************************************************************************)
EXTENDS Integers, Sequences, FiniteSets, TLC

VARIABLES
    work_queue,   \* FsearchDatabase.work_queue: work items not yet popped
    wq_pc,        \* position of work_queue_thread
    cur,          \* the work item being handled, or the last one handled
    prev,         \* the work item handled before cur
    pre,          \* what the engine held when cur was popped
    loc,          \* locals of the running handler
    store,        \* FsearchDatabase.store
    flags,        \* FsearchDatabase.flags
    search_results, \* FsearchDatabase.search_results: view id -> view
    mutex,        \* owner of FsearchDatabase.mutex
    mon_pc,       \* position of the installed store's monitor thread
    idle,         \* events posted with g_idle_add, not yet dispatched
    delivered,    \* the event dispatched to the embedder last (none at first)
    nqueued,      \* number of work items pushed so far
    nstores,      \* number of stores created so far
    nmon,         \* number of monitor brackets opened so far
    nev,          \* number of entry events the monitor reported so far
    reply,        \* what the last fsearch_database_try_get_* call returned
    disk,         \* the snapshot directory: fsearch.db, fsearch.db.tmp, the lock
    call,         \* the running call of db_file_save, db_file_load or
                  \* index_store_start and what it was given
    test          \* the objects of a unit exercised on its own: the include
                  \* managers, the names of a block and their records

vars == <<work_queue, wq_pc, cur, prev, pre, loc, store, flags, search_results,
          mutex, mon_pc, idle, delivered, nqueued, nstores, nmon, nev, reply,
          disk, call, test>>

-----------------------------------------------------------------------------
(* Bounds of the model *)

\* work items the embedder pushes after the LoadFromFile that construction pushes
MaxWork == 3
\* monitor brackets (StartModifying..EndModifying)
MaxBrackets == 1
\* EntryCreated and EntryDeleted events the monitor reports
MaxEvents == 2

-----------------------------------------------------------------------------
(* Entries, queries, configurations *)

Folders == {"d1"}
Files == {"f1", "f2", "f3"}
Entries == Folders \cup Files

\* db_entry_is_folder
IsFolder(e) == e \in Folders

\* the per-root index that owns an entry (its include id)
IndexOf(e) == IF e = "f3" THEN 2 ELSE 1

\* what the scanner finds under an include; f2 appears later, through the monitor
ScanEntries(id) == IF id = 1 THEN {"d1", "f1"} ELSE {"f3"}

\* FsearchQuery: "all" is the query with matches_everything, "q0" matches no
\* entry
Queries == {"all", "q1", "q0"}
QueryMatchesEverything(q) == q = "all"
QueryMatch(q, e) == q = "all" \/ (q = "q1" /\ e \in {"d1", "f1"})

\* FsearchDatabaseIndexProperty; "FileType" stands for the properties of the
\* enum for which index_store_start builds no container
SortKeys == {"Name", "Path", "Size", "MTime", "Ext"}
AllKeys == SortKeys \cup {"FileType"}
SortTypes == {"Asc", "Desc"}

\* include managers (sets of include ids), exclude managers, property flags
IncA == {1}
IncB == {1, 2}
ExcA == "xa"
ExcB == "xb"
NoMgr == {}

\* fsearch_database_include_manager_equal / _exclude_manager_equal: by value
IncludeManagerEqual(a, b) == a = b
ExcludeManagerEqual(a, b) == a = b

-----------------------------------------------------------------------------
(* Entries containers: the entries held and whether the pointer is non-NULL *)

NoContainer == [ok |-> FALSE, es |-> {}]
ContainerNew(es) == [ok |-> TRUE, es |-> es]
ContainerInsert(c, e) == [c EXCEPT !.es = @ \cup {e}]
ContainerSteal(c, e) == [c EXCEPT !.es = @ \ {e}]
NumEntries(c) == Cardinality(c.es)

-----------------------------------------------------------------------------
(* Index store *)

NoStore ==
    [ok |-> FALSE, sid |-> 0, inc |-> NoMgr, exc |-> "none", flags |-> 0,
     indices |-> {}, file_container |-> [k \in AllKeys |-> NoContainer],
     folder_container |-> [k \in AllKeys |-> NoContainer],
     is_sorted |-> FALSE, running |-> FALSE, monitoring |-> FALSE]

\* index_store_new: an empty store that holds the managers and the flags
IndexStoreNew(sid, inc, exc, fl) ==
    [NoStore EXCEPT !.ok = TRUE, !.sid = sid, !.inc = inc, !.exc = exc, !.flags = fl]

\* a start that keeps what it has built when it finds the cancellable tripped
IndexStoreStartKeepsOnCancel(st, scanned, cancel) ==
    IF st.running \/ cancel = "scan" THEN st
    ELSE LET ids == {i \in st.inc : i \in scanned}
             es == UNION {ScanEntries(i) : i \in ids}
         IN [st EXCEPT
               !.indices = ids,
               !.file_container =
                   [k \in AllKeys |-> IF k \in SortKeys
                                      THEN ContainerNew({e \in es : ~IsFolder(e)})
                                      ELSE NoContainer],
               !.folder_container =
                   [k \in AllKeys |-> IF k \in SortKeys
                                      THEN ContainerNew({e \in es : IsFolder(e)})
                                      ELSE NoContainer],
               !.is_sorted = TRUE,
               !.running = cancel # "sort"]

\* index_store_start: scanned are the includes whose scan succeeded; the
\* cancellable is tripped before the scan loop ends ("scan"), while the
\* containers are built ("sort"), after the last check ("late"), or not at all
\* ("never")
IndexStoreStart(st, scanned, cancel) ==
    IF st.running \/ cancel = "scan" THEN st
    ELSE IF cancel = "sort"
         THEN [st EXCEPT !.is_sorted = TRUE]
         ELSE LET ids == {i \in st.inc : i \in scanned}
                  es == UNION {ScanEntries(i) : i \in ids}
              IN [st EXCEPT
                    !.indices = ids,
                    !.file_container =
                        [k \in AllKeys |-> IF k \in SortKeys
                                           THEN ContainerNew({e \in es : ~IsFolder(e)})
                                           ELSE NoContainer],
                    !.folder_container =
                        [k \in AllKeys |-> IF k \in SortKeys
                                           THEN ContainerNew({e \in es : IsFolder(e)})
                                           ELSE NoContainer],
                    !.is_sorted = TRUE,
                    !.running = TRUE]

\* index_store_start_monitoring
IndexStoreStartMonitoring(st) == [st EXCEPT !.monitoring = TRUE]

\* index_store_get_files / index_store_get_folders
IndexStoreGetFiles(st, k) ==
    IF st.ok /\ st.is_sorted THEN st.file_container[k] ELSE NoContainer
IndexStoreGetFolders(st, k) ==
    IF st.ok /\ st.is_sorted THEN st.folder_container[k] ELSE NoContainer

\* index_store_get_num_files / index_store_get_num_folders
IndexStoreGetNumFiles(st) ==
    IF st.file_container["Name"].ok THEN NumEntries(st.file_container["Name"]) ELSE 0
IndexStoreGetNumFolders(st) ==
    IF st.folder_container["Name"].ok THEN NumEntries(st.folder_container["Name"]) ELSE 0

\* an insertion that creates the container it does not find
IndexStoreAddEntriesCreating(st, es, is_dir) ==
    IF is_dir
    THEN [st EXCEPT !.folder_container =
            [k \in AllKeys |-> ContainerNew(@[k].es \cup es)]]
    ELSE [st EXCEPT !.file_container =
            [k \in AllKeys |-> ContainerNew(@[k].es \cup es)]]

\* an add that inserts into the Name container only
IndexStoreAddEntriesNameOnly(st, es, is_dir) ==
    IF is_dir
    THEN [st EXCEPT !.folder_container["Name"] =
            IF @.ok THEN [@ EXCEPT !.es = @ \cup es] ELSE @]
    ELSE [st EXCEPT !.file_container["Name"] =
            IF @.ok THEN [@ EXCEPT !.es = @ \cup es] ELSE @]

\* index_store_add_entries
IndexStoreAddEntries(st, es, is_dir) ==
    IF is_dir
    THEN [st EXCEPT !.folder_container =
            [k \in AllKeys |-> IF @[k].ok THEN [@[k] EXCEPT !.es = @ \cup es] ELSE @[k]]]
    ELSE [st EXCEPT !.file_container =
            [k \in AllKeys |-> IF @[k].ok THEN [@[k] EXCEPT !.es = @ \cup es] ELSE @[k]]]

\* index_store_remove_folders
IndexStoreRemoveFolders(st, es) ==
    [st EXCEPT !.folder_container =
        [k \in AllKeys |-> IF @[k].ok THEN [@[k] EXCEPT !.es = @ \ es] ELSE @[k]]]

\* index_store_remove_files
IndexStoreRemoveFiles(st, es) ==
    [st EXCEPT !.file_container =
        [k \in AllKeys |-> IF @[k].ok THEN [@[k] EXCEPT !.es = @ \ es] ELSE @[k]]]

\* a getter that finds no include manager
GetIncludeManagerNone(st) == NoMgr

\* get_include_manager / get_exclude_manager: NULL without a store
GetIncludeManager(st) == IF st.ok THEN st.inc ELSE NoMgr
GetExcludeManager(st) == IF st.ok THEN st.exc ELSE "none"

\* get_num_database_files / get_num_database_folders
GetNumDatabaseFiles(st) == IF st.ok THEN IndexStoreGetNumFiles(st) ELSE 0
\* a folder count read from the file container
GetNumDatabaseFoldersOfFiles(st) == IF st.ok THEN IndexStoreGetNumFiles(st) ELSE 0
GetNumDatabaseFolders(st) == IF st.ok THEN IndexStoreGetNumFolders(st) ELSE 0

-----------------------------------------------------------------------------
(* Search views *)

ViewIds == {1, 2}

NoView ==
    [ok |-> FALSE, query |-> "none", file_container |-> NoContainer,
     folder_container |-> NoContainer, sort_order |-> "None",
     secondary_sort_order |-> "None", sort_type |-> "Asc",
     file_selection |-> {}, folder_selection |-> {}, sid |-> 0]

\* search_view_new; sid records the store the entries were read from
SearchViewNew(q, files, folders, sort_order, secondary, sort_type, sid) ==
    [ok |-> TRUE, query |-> q, file_container |-> ContainerNew(files),
     folder_container |-> ContainerNew(folders), sort_order |-> sort_order,
     secondary_sort_order |-> secondary, sort_type |-> sort_type,
     file_selection |-> {}, folder_selection |-> {}, sid |-> sid]

\* get_num_search_file_results / get_num_search_folder_results
GetNumSearchFileResults(v) ==
    IF v.ok /\ v.file_container.ok THEN NumEntries(v.file_container) ELSE 0
GetNumSearchFolderResults(v) ==
    IF v.ok /\ v.file_container.ok THEN NumEntries(v.folder_container) ELSE 0

\* the bits of uint32_t and int32_t, scaled down
WordBits == 4
UintModulus == 2 ^ WordBits
IntMax == 2 ^ (WordBits - 1) - 1
IntMin == 0 - 2 ^ (WordBits - 1)

\* the conversion of an int32_t argument to a uint32_t parameter
ToUint(i) == i % UintModulus

\* NULL as an entry pointer
NullEntry == "null"

\* the position of an entry in the order of names
NameRank(e) ==
    CASE e = "d1" -> 1 [] e = "f1" -> 2 [] e = "f2" -> 3 [] e = "f3" -> 4

\* the position of an entry in the order of a sort key: by size and by
\* modification time the entries come in the opposite order
KeyRank(key, e) ==
    IF key \in {"Size", "MTime"} THEN 5 - NameRank(e) ELSE NameRank(e)

\* fsearch_database_entries_container_get_entry: the entry at position idx
\* (from 0) of a container sorted under key
ContainerGetEntry(c, key, idx) ==
    LET at == {e \in c.es :
                  Cardinality({x \in c.es : KeyRank(key, x) < KeyRank(key, e)}) = idx}
    IN IF at = {} THEN NullEntry ELSE CHOOSE e \in at : TRUE

\* an index that is never inverted
GetIdxForSortTypeAscending(idx, num_files, num_folders, sort_type) == idx

\* get_idx_for_sort_type, in uint32_t arithmetic
GetIdxForSortType(idx, num_files, num_folders, sort_type) ==
    IF sort_type = "Desc"
    THEN (((num_folders + num_files) % UintModulus) - ((idx + 1) % UintModulus))
             % UintModulus
    ELSE idx

\* get_entry_for_idx
GetEntryForIdx(v, idx) ==
    IF ~v.folder_container.ok THEN NullEntry
    ELSE IF ~v.file_container.ok THEN NullEntry
    ELSE LET num_folders == GetNumSearchFolderResults(v)
             num_files == GetNumSearchFileResults(v)
             i == GetIdxForSortType(idx, num_files, num_folders, v.sort_type)
         IN IF i < num_folders
            THEN ContainerGetEntry(v.folder_container, v.sort_order, i)
            ELSE LET j == (i - num_folders) % UintModulus
                 IN IF j < num_files
                    THEN ContainerGetEntry(v.file_container, v.sort_order, j)
                    ELSE NullEntry

\* is_selected
IsSelected(v, e) ==
    IF IsFolder(e) THEN e \in v.folder_selection ELSE e \in v.file_selection

\* fsearch_selection_select / _select_toggle / _unselect_all / _select_all /
\* _invert: a selection is the set of the selected entries
SelectionSelect(sel, e) == sel \cup {e}
SelectionSelectToggle(sel, e) == IF e \in sel THEN sel \ {e} ELSE sel \cup {e}
SelectionUnselectAll(sel) == {}
SelectionSelectAll(sel, c) == sel \cup c.es
SelectionInvert(sel, c) == (sel \ c.es) \cup (c.es \ sel)

\* the views left registered when the table is not emptied
KeepAllViews(views) == views

\* g_hash_table_remove_all(self->search_results)
RemoveAllViews(views) == [id \in ViewIds |-> NoView]

RegisteredViews(views) == {id \in ViewIds : views[id].ok}

\* db_search_empty: every entry of the containers
DbSearchEmpty(folders, files) == [ok |-> TRUE, files |-> files, folders |-> folders]

\* db_search: the matching entries, or no result when it saw the tripped token
DbSearch(q, folders, files, cancelled) ==
    {[ok |-> TRUE, files |-> {e \in files : QueryMatch(q, e)},
      folders |-> {e \in folders : QueryMatch(q, e)}]}
    \cup (IF cancelled THEN {[ok |-> FALSE, files |-> {}, folders |-> {}]} ELSE {})

\* fsearch_database_sort_results: the new arrays hold the entries of the old
\* ones under the new key; none are made when it saw the tripped token
SortResults(v, key, cancelled) ==
    {[ok |-> TRUE, sort_order |-> key,
      secondary |-> IF v.sort_order = key THEN v.secondary_sort_order ELSE "None"]}
    \cup (IF cancelled
          THEN {[ok |-> FALSE, sort_order |-> v.sort_order,
                 secondary |-> v.secondary_sort_order]}
          ELSE {})

-----------------------------------------------------------------------------
(* Events *)

\* FsearchSignalEmitContext: type and arguments; w is the work item whose
\* handler posted it (0 for the monitor thread), held whether the poster held
\* the store mutex
Event(type, w, id, nfiles, nfolders, held) ==
    [type |-> type, w |-> w, id |-> id, num_files |-> nfiles,
     num_folders |-> nfolders, held |-> held]

\* an event that carries a FsearchDatabaseSearchInfo of the view v
SearchInfoEvent(type, w, id, v, held) ==
    [type |-> type, w |-> w, id |-> id,
     num_files |-> GetNumSearchFileResults(v),
     num_folders |-> GetNumSearchFolderResults(v), held |-> held,
     num_files_selected |-> Cardinality(v.file_selection),
     num_folders_selected |-> Cardinality(v.folder_selection),
     sort_order |-> v.sort_order, sort_type |-> v.sort_type]

\* the item-info-ready event for an entry
ItemInfoEvent(w, id, idx, entry, selected, held) ==
    [type |-> "item-info-ready", w |-> w, id |-> id, num_files |-> 0,
     num_folders |-> 0, held |-> held, idx |-> idx, entry |-> entry,
     selected |-> selected]

\* the events of work item w among the events q, in their order in q
RECURSIVE EventsOf(_, _)
EventsOf(q, w) ==
    IF q = <<>> THEN <<>>
    ELSE IF Head(q).w = w THEN <<Head(q)>> \o EventsOf(Tail(q), w)
         ELSE EventsOf(Tail(q), w)

\* an idle queue that dispatches the newest source first
IdleAddFront(q, ev) == <<ev>> \o q

\* g_idle_add: sources of one priority are dispatched in the order added
IdleAdd(q, ev) == Append(q, ev)

\* emit_signal / emit_signal0
EmitSignal(q, ev) == IdleAdd(q, ev)


-----------------------------------------------------------------------------
(* Work items *)

Work(kind, inc, exc, fl, q, view, key, dir, cancelled) ==
    [kind |-> kind, seq |-> 0, inc |-> inc, exc |-> exc, flags |-> fl, query |-> q,
     view_id |-> view, sort_order |-> key, sort_type |-> dir, cancelled |-> cancelled,
     sel_type |-> "None", start_idx |-> 0, end_idx |-> 0]

Plain(kind) == Work(kind, NoMgr, "none", 0, "none", 0, "None", "Asc", FALSE)

NoWork == Plain("None")

\* the configurations a Scan carries
ScanConfigs == {<<IncA, ExcA, 0>>, <<IncA, ExcB, 0>>, <<IncA, ExcA, 1>>}

\* the Scan items pushed; the one for IncB has its token tripped
ScanInputs ==
    {Work("Scan", c[1], c[2], c[3], "none", 0, "None", "Asc", FALSE) : c \in ScanConfigs}
    \cup {Work("Scan", IncB, ExcA, 0, "none", 0, "None", "Asc", TRUE)}

\* the Search items pushed
SearchInputs ==
    {Work("Search", NoMgr, "none", 0, "all", 1, "Size", "Asc", FALSE),
     Work("Search", NoMgr, "none", 0, "q1", 1, "FileType", "Desc", FALSE),
     Work("Search", NoMgr, "none", 0, "q1", 2, "Size", "Asc", TRUE)}

\* the Sort items pushed
SortInputs ==
    {Work("Sort", NoMgr, "none", 0, "none", 1, "Name", "Desc", FALSE),
     Work("Sort", NoMgr, "none", 0, "none", 2, "FileType", "Asc", TRUE)}

\* a ModifySelection item
SelectionWork(view, type, start_idx, end_idx) ==
    [Plain("ModifySelection") EXCEPT !.view_id = view, !.sel_type = type,
                                     !.start_idx = start_idx, !.end_idx = end_idx]

\* a GetItemInfo item; start_idx holds its index
ItemInfoWork(view, idx) ==
    [Plain("GetItemInfo") EXCEPT !.view_id = view, !.start_idx = idx]

WorkInputs ==
    ScanInputs \cup SearchInputs \cup SortInputs
    \cup {Plain("Rescan"), Plain("SaveToFile"), Plain("Quit")}

\* g_async_queue_push / g_async_queue_pop: first in, first out
QueuePush(q, w) == Append(q, w)
QueuePop(q) == Head(q)
QueueRest(q) == Tail(q)

\* posted: the types of the events the handler has emitted so far
NoLocals == [skipped |-> FALSE, posted |-> <<>>, num_files |-> 0, num_folders |-> 0,
             sort_order |-> "None", found |-> FALSE, new_store |-> NoStore,
             flags |-> 0, entry |-> NullEntry, selected |-> FALSE]

Snapshot ==
    [store_ok |-> store.ok, sid |-> store.sid, inc |-> store.inc, exc |-> store.exc,
     store_flags |-> store.flags, flags |-> flags, views |-> RegisteredViews(search_results),
     sel |-> [id \in ViewIds |-> <<search_results[id].file_selection,
                                    search_results[id].folder_selection>>]]

\* no fsearch_database_try_get_* call has returned yet
NoReply == [op |-> "none", res |-> "none"]

\* a snapshot directory without fsearch.db and fsearch.db.tmp; linked tells
\* whether the path fsearch.db.tmp still names the file the saving call opened
NoFile == [kind |-> "none"]
NoDisk == [db |-> NoFile, tmp |-> NoFile, tmp_lock |-> "none", linked |-> FALSE]

\* no call of db_file_save, db_file_load or index_store_start is running
NoCall == [op |-> "none", pc |-> "none", second |-> "none", res |-> FALSE,
           header |-> FALSE, saved |-> FALSE, store_out |-> NoStore,
           old |-> NoFile, includes |-> <<>>, scanned |-> {}, cancel |-> "never",
           members |-> <<>>, before |-> NoStore]

\* no unit is exercised on its own
NoTest == [unit |-> "none"]

\* nothing handled yet, nothing found yet
NoPrev == [item |-> NoWork, skipped |-> FALSE, posted |-> <<>>,
           sel |-> [id \in ViewIds |-> <<{}, {}>>]]
NoPre == [store_ok |-> FALSE, sid |-> 0, inc |-> NoMgr, exc |-> "none",
          store_flags |-> 0, flags |-> 0, views |-> {},
          sel |-> [id \in ViewIds |-> <<{}, {}>>]]

-----------------------------------------------------------------------------
(* Initial state: fsearch_database_init, fsearch_database_constructed *)

Init ==
    /\ work_queue = <<[Plain("LoadFromFile") EXCEPT !.seq = 1]>>
    /\ wq_pc = "idle"
    /\ cur = NoWork
    /\ prev = NoPrev
    /\ pre = NoPre
    /\ loc = NoLocals
    /\ store = NoStore
    /\ flags = 0
    /\ search_results = [id \in ViewIds |-> NoView]
    /\ mutex = "none"
    /\ mon_pc = "idle"
    /\ idle = <<>>
    /\ delivered = <<>>
    /\ nqueued = 1
    /\ nstores = 0
    /\ nmon = 0
    /\ nev = 0
    /\ reply = NoReply
    /\ disk = NoDisk
    /\ call = NoCall
    /\ test = NoTest

-----------------------------------------------------------------------------
(* The embedder *)

\* a database_unlock that leaves the mutex with its holder
DatabaseUnlockKept(m) == m

\* database_unlock, g_mutex_locker_free: the holder gives the mutex back
DatabaseUnlock(m) == "none"


\* the process runs until a handler dereferences a NULL pointer
Alive == wq_pc # "crashed"

\* fsearch_database_queue_work
QueueWork ==
    /\ Alive
    /\ nqueued < MaxWork + 1
    /\ \E w \in WorkInputs :
          work_queue' = QueuePush(work_queue, [w EXCEPT !.seq = nqueued + 1])
    /\ nqueued' = nqueued + 1
    /\ UNCHANGED <<disk, call, test, reply, wq_pc, cur, prev, pre, loc, store, flags, search_results, mutex,
                   mon_pc, idle, delivered, nstores, nmon, nev>>

\* emit_signal_cb: the main loop dispatches the oldest idle source
Deliver ==
    /\ Alive
    /\ idle # <<>>
    /\ delivered' = <<Head(idle)>>
    /\ idle' = Tail(idle)
    /\ UNCHANGED <<disk, call, test, reply, work_queue, wq_pc, cur, prev, pre, loc, store, flags,
                   search_results, mutex, mon_pc, nqueued, nstores, nmon, nev>>

-----------------------------------------------------------------------------
(* work_queue_thread *)

\* the handler's locals after it emitted an event of this type
Emitted(l, type) == [l EXCEPT !.posted = Append(@, type)]

\* the handler a popped work item starts in
\* a switch whose Quit case does not leave the loop
StartOfKeepsRunning(kind) ==
    CASE kind = "Quit" -> "idle"
      [] kind = "LoadFromFile" -> "load"
      [] kind = "Rescan" -> "rescan"
      [] kind = "SaveToFile" -> "save"
      [] kind = "Scan" -> "scan"
      [] kind = "Search" -> "search"
      [] kind = "Sort" -> "sort"
      [] kind = "ModifySelection" -> "select"
      [] kind = "GetItemInfo" -> "item_info"

StartOf(kind) ==
    CASE kind = "Quit" -> "exited"
      [] kind = "LoadFromFile" -> "load"
      [] kind = "Rescan" -> "rescan"
      [] kind = "SaveToFile" -> "save"
      [] kind = "Scan" -> "scan"
      [] kind = "Search" -> "search"
      [] kind = "Sort" -> "sort"
      [] kind = "ModifySelection" -> "select"
      [] kind = "GetItemInfo" -> "item_info"

\* g_async_queue_pop and the switch on the work kind
PopWork ==
    /\ wq_pc = "idle"
    /\ work_queue # <<>>
    /\ cur' = QueuePop(work_queue)
    /\ work_queue' = QueueRest(work_queue)
    /\ prev' = [item |-> cur, skipped |-> loc.skipped, posted |-> loc.posted,
                sel |-> pre.sel]
    /\ pre' = Snapshot
    /\ loc' = NoLocals
    /\ wq_pc' = StartOf(cur'.kind)
    /\ UNCHANGED <<disk, call, test, reply, store, flags, search_results, mutex, mon_pc, idle, delivered,
                   nqueued, nstores, nmon, nev>>

\* the result of the snapshot decode in load_database_from_file
LoadResult == FALSE

\* load_database_from_file: emit load-started
LoadStart ==
    /\ wq_pc = "load"
    /\ idle' = EmitSignal(idle, Event("load-started", cur.seq, 0, 0, 0, FALSE))
    /\ loc' = Emitted(loc, "load-started")
    /\ wq_pc' = "load_lock"
    /\ UNCHANGED <<disk, call, test, reply, work_queue, cur, prev, pre, store, flags, search_results,
                   mutex, mon_pc, delivered, nqueued, nstores, nmon, nev>>

\* load_database_from_file: under the mutex, install the decoded store if the
\* decode succeeded, emit load-finished
LoadInstall ==
    /\ wq_pc = "load_lock"
    /\ mutex = "none"
    /\ mutex' = DatabaseUnlock("wq")
    /\ store' = IF LoadResult THEN NoStore ELSE store
    /\ idle' = EmitSignal(idle, Event("load-finished", cur.seq, 0,
                                      GetNumDatabaseFiles(store'),
                                      GetNumDatabaseFolders(store'), TRUE))
    /\ loc' = Emitted(loc, "load-finished")
    /\ wq_pc' = "idle"
    /\ UNCHANGED <<disk, call, test, reply, work_queue, cur, prev, pre, flags, search_results, mon_pc, delivered, nqueued, nstores, nmon, nev>>

\* save_database_to_file, between save-started and save-finished
SaveStart ==
    /\ wq_pc = "save"
    /\ idle' = EmitSignal(idle, Event("save-started", cur.seq, 0, 0, 0, FALSE))
    /\ loc' = Emitted(loc, "save-started")
    /\ wq_pc' = "save_lock"
    /\ UNCHANGED <<disk, call, test, reply, work_queue, cur, prev, pre, store, flags, search_results,
                   mutex, mon_pc, delivered, nqueued, nstores, nmon, nev>>

\* save_database_to_file: takes and releases the mutex, writes nothing
SaveToFile ==
    /\ wq_pc = "save_lock"
    /\ mutex = "none"
    /\ mutex' = DatabaseUnlock("wq")
    /\ wq_pc' = "save_finish"
    /\ UNCHANGED <<disk, call, test, reply, work_queue, cur, prev, pre, loc, store, flags, search_results,
                   mon_pc, idle, delivered, nqueued, nstores, nmon, nev>>

SaveFinish ==
    /\ wq_pc = "save_finish"
    /\ idle' = EmitSignal(idle, Event("save-finished", cur.seq, 0, 0, 0, FALSE))
    /\ loc' = Emitted(loc, "save-finished")
    /\ wq_pc' = "idle"
    /\ UNCHANGED <<disk, call, test, reply, work_queue, cur, prev, pre, store, flags, search_results,
                   mutex, mon_pc, delivered, nqueued, nstores, nmon, nev>>

\* a scan_database that never takes the no-op branch
ScanSkipsNever(st, inc, exc) == FALSE

\* scan_database: the test that makes a Scan a no-op
ScanSkips(st, inc, exc) ==
    /\ st.ok
    /\ IncludeManagerEqual(GetIncludeManager(st), inc)
    /\ ExcludeManagerEqual(GetExcludeManager(st), exc)

\* fsearch_database_index_scan: the includes whose scan succeeds; the scan of
\* include 2 may fail
ScanOutcomes(inc) == {inc, inc \ {2}}

\* scan_database and rescan_database pass no cancellable to index_store_start
StartCancel(w) == "never"

\* index_store_free joins the store's monitor thread, which can leave its loop
\* only between two callbacks
\* a release of the old store that does not wait for its monitor thread
CanJoinMonitorAnytime(st) == TRUE

CanJoinMonitor(st) == ~st.ok \/ mon_pc = "idle"

\* scan_database: under the mutex, compare the config with the current one
ScanCheck ==
    /\ wq_pc = "scan"
    /\ mutex = "none"
    /\ mutex' = DatabaseUnlock("wq")
    /\ IF ScanSkips(store, cur.inc, cur.exc)
       THEN /\ wq_pc' = "idle"
            /\ loc' = [loc EXCEPT !.skipped = TRUE]
       ELSE /\ wq_pc' = "scan_build"
            /\ loc' = loc
    /\ UNCHANGED <<disk, call, test, reply, work_queue, cur, prev, pre, store, flags, search_results, mon_pc, idle, delivered, nqueued, nstores, nmon, nev>>

\* scan_database: emit scan-started, build and start the new store
ScanBuild ==
    /\ wq_pc = "scan_build"
    /\ idle' = EmitSignal(idle, Event("scan-started", cur.seq, 0, 0, 0, FALSE))
    /\ \E scanned \in ScanOutcomes(cur.inc) :
          loc' = [Emitted(loc, "scan-started") EXCEPT !.new_store =
                    IndexStoreStart(IndexStoreNew(nstores + 1, cur.inc, cur.exc, cur.flags),
                                    scanned, StartCancel(cur))]
    /\ nstores' = nstores + 1
    /\ wq_pc' = "scan_lock"
    /\ UNCHANGED <<disk, call, test, reply, work_queue, cur, prev, pre, store, flags, search_results, mutex,
                   mon_pc, delivered, nqueued, nmon, nev>>

ScanLock ==
    /\ wq_pc = "scan_lock"
    /\ mutex = "none"
    /\ mutex' = "wq"
    /\ wq_pc' = "scan_swap"
    /\ UNCHANGED <<disk, call, test, reply, work_queue, cur, prev, pre, loc, store, flags, search_results,
                   mon_pc, idle, delivered, nqueued, nstores, nmon, nev>>

\* scan_database: set the flags, release the old store, install the new one
ScanSwap ==
    /\ wq_pc = "scan_swap"
    /\ CanJoinMonitor(store)
    /\ flags' = cur.flags
    /\ store' = loc.new_store
    /\ wq_pc' = "scan_clear"
    /\ UNCHANGED <<disk, call, test, reply, work_queue, cur, prev, pre, loc, search_results, mutex, mon_pc,
                   idle, delivered, nqueued, nstores, nmon, nev>>

\* scan_database: start monitoring, drop every view, emit scan-finished, unlock
ScanClear ==
    /\ wq_pc = "scan_clear"
    /\ store' = IndexStoreStartMonitoring(store)
    /\ search_results' = RemoveAllViews(search_results)
    /\ idle' = EmitSignal(idle, Event("scan-finished", cur.seq, 0,
                                      GetNumDatabaseFiles(store'),
                                      GetNumDatabaseFolders(store'), TRUE))
    /\ mutex' = DatabaseUnlock(mutex)
    /\ loc' = Emitted(loc, "scan-finished")
    /\ wq_pc' = "idle"
    /\ UNCHANGED <<disk, call, test, reply, work_queue, cur, prev, pre, flags, mon_pc, delivered,
                   nqueued, nstores, nmon, nev>>

\* rescan_database: under the mutex, emit scan-started and read the flags
RescanStart ==
    /\ wq_pc = "rescan"
    /\ mutex = "none"
    /\ mutex' = DatabaseUnlock("wq")
    /\ idle' = EmitSignal(idle, Event("scan-started", cur.seq, 0, 0, 0, TRUE))
    /\ loc' = [Emitted(loc, "scan-started") EXCEPT !.flags = flags]
    /\ wq_pc' = "rescan_build"
    /\ UNCHANGED <<disk, call, test, reply, work_queue, cur, prev, pre, store, flags, search_results, mon_pc, delivered, nqueued, nstores, nmon, nev>>

\* rescan_database: build and start a store from the current store's managers;
\* without a store they are NULL and index_store_start dereferences NULL
RescanBuild ==
    /\ wq_pc = "rescan_build"
    /\ IF store.ok
       THEN /\ \E scanned \in ScanOutcomes(GetIncludeManager(store)) :
                  loc' = [loc EXCEPT !.new_store =
                            IndexStoreStart(IndexStoreNew(nstores + 1,
                                                          GetIncludeManager(store),
                                                          GetExcludeManager(store),
                                                          loc.flags),
                                            scanned, StartCancel(cur))]
            /\ nstores' = nstores + 1
            /\ wq_pc' = "rescan_lock"
       ELSE /\ wq_pc' = "crashed"
            /\ UNCHANGED <<loc, nstores>>
    /\ UNCHANGED <<disk, call, test, reply, work_queue, cur, prev, pre, store, flags, search_results, mutex,
                   mon_pc, idle, delivered, nqueued, nmon, nev>>

RescanLock ==
    /\ wq_pc = "rescan_lock"
    /\ mutex = "none"
    /\ mutex' = "wq"
    /\ wq_pc' = "rescan_swap"
    /\ UNCHANGED <<disk, call, test, reply, work_queue, cur, prev, pre, loc, store, flags, search_results,
                   mon_pc, idle, delivered, nqueued, nstores, nmon, nev>>

\* rescan_database: set the flags, release the old store, install the new one
RescanSwap ==
    /\ wq_pc = "rescan_swap"
    /\ CanJoinMonitor(store)
    /\ flags' = loc.flags
    /\ store' = loc.new_store
    /\ wq_pc' = "rescan_clear"
    /\ UNCHANGED <<disk, call, test, reply, work_queue, cur, prev, pre, loc, search_results, mutex, mon_pc,
                   idle, delivered, nqueued, nstores, nmon, nev>>

\* rescan_database: start monitoring, drop every view, emit scan-finished, unlock
RescanClear ==
    /\ wq_pc = "rescan_clear"
    /\ store' = IndexStoreStartMonitoring(store)
    /\ search_results' = RemoveAllViews(search_results)
    /\ idle' = EmitSignal(idle, Event("scan-finished", cur.seq, 0,
                                      GetNumDatabaseFiles(store'),
                                      GetNumDatabaseFolders(store'), TRUE))
    /\ mutex' = DatabaseUnlock(mutex)
    /\ loc' = Emitted(loc, "scan-finished")
    /\ wq_pc' = "idle"
    /\ UNCHANGED <<disk, call, test, reply, work_queue, cur, prev, pre, flags, mon_pc, delivered,
                   nqueued, nstores, nmon, nev>>

\* search_database: lock; without a store unlock and return, else emit
\* search-started
SearchLock ==
    /\ wq_pc = "search"
    /\ mutex = "none"
    /\ IF ~store.ok
       THEN /\ wq_pc' = "idle"
            /\ mutex' = DatabaseUnlock("wq")
            /\ UNCHANGED <<idle, loc>>
       ELSE /\ idle' = EmitSignal(idle, Event("search-started", cur.seq, cur.view_id,
                                              0, 0, TRUE))
            /\ loc' = Emitted(loc, "search-started")
            /\ mutex' = "wq"
            /\ wq_pc' = "search_body"
    /\ UNCHANGED <<disk, call, test, reply, work_queue, cur, prev, pre, store, flags, search_results,
                   mon_pc, delivered, nqueued, nstores, nmon, nev>>

\* search_database: the sort order searched in: the requested one, or Name when
\* the store has neither container for it
SearchSortOrder(st, key) ==
    IF ~IndexStoreGetFiles(st, key).ok /\ ~IndexStoreGetFolders(st, key).ok
    THEN "Name" ELSE key

\* search_database: the view registered for a search result
SearchRegister(views, id, view) == [views EXCEPT ![id] = view]

\* search_database: match the store's entries, register the view, unlock
SearchBody ==
    /\ wq_pc = "search_body"
    /\ LET key == SearchSortOrder(store, cur.sort_order)
           files == IndexStoreGetFiles(store, key).es
           folders == IndexStoreGetFolders(store, key).es
           results == IF QueryMatchesEverything(cur.query)
                      THEN {DbSearchEmpty(folders, files)}
                      ELSE DbSearch(cur.query, folders, files, cur.cancelled)
       IN \E r \in results :
            /\ search_results' =
                 IF r.ok
                 THEN SearchRegister(search_results, cur.view_id,
                                     SearchViewNew(cur.query, r.files, r.folders, key,
                                                   "None", cur.sort_type, store.sid))
                 ELSE search_results
            /\ loc' = [loc EXCEPT !.found = r.ok,
                                  !.num_files = Cardinality(r.files),
                                  !.num_folders = Cardinality(r.folders),
                                  !.sort_order = key]
    /\ mutex' = DatabaseUnlock(mutex)
    /\ wq_pc' = "search_finish"
    /\ UNCHANGED <<disk, call, test, reply, work_queue, cur, prev, pre, store, flags, mon_pc, idle, delivered,
                   nqueued, nstores, nmon, nev>>

\* search_database: emit search-finished with the counts of the result
SearchFinish ==
    /\ wq_pc = "search_finish"
    /\ idle' = EmitSignal(idle, Event("search-finished", cur.seq, cur.view_id,
                                      loc.num_files, loc.num_folders, FALSE))
    /\ loc' = Emitted(loc, "search-finished")
    /\ wq_pc' = "idle"
    /\ UNCHANGED <<disk, call, test, reply, work_queue, cur, prev, pre, store, flags, search_results,
                   mutex, mon_pc, delivered, nqueued, nstores, nmon, nev>>

\* sort_database: emit sort-started
SortStart ==
    /\ wq_pc = "sort"
    /\ idle' = EmitSignal(idle, Event("sort-started", cur.seq, cur.view_id, 0, 0, FALSE))
    /\ loc' = Emitted(loc, "sort-started")
    /\ wq_pc' = "sort_lock"
    /\ UNCHANGED <<disk, call, test, reply, work_queue, cur, prev, pre, store, flags, search_results,
                   mutex, mon_pc, delivered, nqueued, nstores, nmon, nev>>

\* a sort that registers a fresh view of the sorted entries
SortedViewFresh(v, r, sort_type) ==
    IF r.ok
    THEN SearchViewNew(v.query, v.file_container.es, v.folder_container.es,
                       r.sort_order, r.secondary, sort_type, v.sid)
    ELSE v

\* sort_database: the view after the new arrays replaced its containers
SortedView(v, r, sort_type) ==
    IF r.ok
    THEN [v EXCEPT !.sort_order = r.sort_order, !.secondary_sort_order = r.secondary,
                   !.sort_type = sort_type]
    ELSE v

\* sort_database: under the mutex, return if the view is unknown, else sort it
\* and emit sort-finished
SortBody ==
    /\ wq_pc = "sort_lock"
    /\ mutex = "none"
    /\ mutex' = DatabaseUnlock("wq")
    /\ LET view == search_results[cur.view_id]
       IN IF ~view.ok
          THEN UNCHANGED <<search_results, idle, loc>>
          ELSE \E r \in SortResults(view, cur.sort_order, cur.cancelled) :
                 LET v2 == SortedView(view, r, cur.sort_type)
                 IN /\ search_results' = [search_results EXCEPT ![cur.view_id] = v2]
                    /\ loc' = [Emitted(loc, "sort-finished") EXCEPT !.found = TRUE]
                    /\ idle' = EmitSignal(idle,
                                  Event("sort-finished", cur.seq, cur.view_id,
                                        GetNumSearchFileResults(v2),
                                        GetNumSearchFolderResults(v2), TRUE))
    /\ wq_pc' = "idle"
    /\ UNCHANGED <<disk, call, test, reply, work_queue, cur, prev, pre, store, flags, mon_pc, delivered,
                   nqueued, nstores, nmon, nev>>

\* a toggle that only ever selects
ToggleEntrySelects(v, entry) ==
    IF entry = NullEntry THEN v
    ELSE IF ~IsFolder(entry)
         THEN [v EXCEPT !.file_selection = SelectionSelect(@, entry)]
         ELSE [v EXCEPT !.folder_selection = SelectionSelect(@, entry)]

\* toggle_range / select_range: what one turn of the loop does with the entry
\* it found
ToggleEntry(v, entry) ==
    IF entry = NullEntry THEN v
    ELSE IF ~IsFolder(entry)
         THEN [v EXCEPT !.file_selection = SelectionSelectToggle(@, entry)]
         ELSE [v EXCEPT !.folder_selection = SelectionSelectToggle(@, entry)]

SelectEntry(v, entry) ==
    IF entry = NullEntry THEN v
    ELSE IF ~IsFolder(entry)
         THEN [v EXCEPT !.file_selection = SelectionSelect(@, entry)]
         ELSE [v EXCEPT !.folder_selection = SelectionSelect(@, entry)]

\* the loops of toggle_range and select_range, from i up to end_idx
RECURSIVE ToggleLoop(_, _, _)
ToggleLoop(v, i, end_idx) ==
    IF i > end_idx THEN v
    ELSE ToggleLoop(ToggleEntry(v, GetEntryForIdx(v, ToUint(i))), i + 1, end_idx)

RECURSIVE SelectLoop(_, _, _)
SelectLoop(v, i, end_idx) ==
    IF i > end_idx THEN v
    ELSE SelectLoop(SelectEntry(v, GetEntryForIdx(v, ToUint(i))), i + 1, end_idx)

\* toggle_range
ToggleRange(v, start_idx, end_idx) ==
    IF start_idx > end_idx
    THEN ToggleLoop(v, end_idx, start_idx)
    ELSE ToggleLoop(v, start_idx, end_idx)

\* select_range
SelectRange(v, start_idx, end_idx) ==
    IF start_idx > end_idx
    THEN SelectLoop(v, end_idx, start_idx)
    ELSE SelectLoop(v, start_idx, end_idx)

\* the ++i of the range loops overflows int32_t when the larger index is
\* INT32_MAX
RangeOverflows(type, start_idx, end_idx) ==
    /\ type \in {"SelectRange", "ToggleRange"}
    /\ (start_idx = IntMax \/ end_idx = IntMax)

\* modify_selection on a view: the view afterwards and whether
\* selection-changed is emitted
ModifySelectionResult(v, type, start_idx, end_idx) ==
    IF ~v.ok THEN [view |-> v, emitted |-> FALSE]
    ELSE LET entry == GetEntryForIdx(v, ToUint(start_idx))
         IN IF entry = NullEntry THEN [view |-> v, emitted |-> FALSE]
            ELSE [emitted |-> TRUE,
                  view |->
                    CASE type = "Clear" ->
                           [v EXCEPT !.file_selection = SelectionUnselectAll(@),
                                     !.folder_selection = SelectionUnselectAll(@)]
                      [] type = "All" ->
                           [v EXCEPT
                              !.file_selection = SelectionSelectAll(@, v.file_container),
                              !.folder_selection = SelectionSelectAll(@, v.folder_container)]
                      [] type = "Invert" ->
                           [v EXCEPT
                              !.file_selection = SelectionInvert(@, v.file_container),
                              !.folder_selection = SelectionInvert(@, v.folder_container)]
                      [] type = "Select" -> SelectEntry(v, entry)
                      [] type = "Toggle" -> ToggleEntry(v, entry)
                      [] type = "SelectRange" -> SelectRange(v, start_idx, end_idx)
                      [] type = "ToggleRange" -> ToggleRange(v, start_idx, end_idx)]

\* modify_selection: under the mutex, return if the view is unknown or has no
\* entry at start_idx, else change the selection and emit selection-changed
ModifySelection ==
    /\ wq_pc = "select"
    /\ mutex = "none"
    /\ mutex' = DatabaseUnlock("wq")
    /\ LET r == ModifySelectionResult(search_results[cur.view_id], cur.sel_type,
                                      cur.start_idx, cur.end_idx)
       IN /\ search_results' = [search_results EXCEPT ![cur.view_id] = r.view]
          /\ idle' = IF r.emitted
                     THEN EmitSignal(idle, SearchInfoEvent("selection-changed", cur.seq,
                                                           cur.view_id, r.view, TRUE))
                     ELSE idle
          /\ loc' = IF r.emitted THEN Emitted(loc, "selection-changed") ELSE loc
    /\ wq_pc' = "idle"
    /\ UNCHANGED <<disk, call, test, reply, work_queue, cur, prev, pre, store, flags, mon_pc,
                   delivered, nqueued, nstores, nmon, nev>>

\* modify_selection: a range loop whose counter overflows never gets past its
\* test and the handler keeps the mutex
ModifySelectionOverflow ==
    /\ wq_pc = "select"
    /\ mutex = "none"
    /\ RangeOverflows(cur.sel_type, cur.start_idx, cur.end_idx)
    /\ ModifySelectionResult(search_results[cur.view_id], cur.sel_type,
                             cur.start_idx, cur.end_idx).emitted
    /\ mutex' = "wq"
    /\ wq_pc' = "spinning"
    /\ UNCHANGED <<disk, call, test, reply, work_queue, cur, prev, pre, loc, store, flags, search_results,
                   mon_pc, idle, delivered, nqueued, nstores, nmon, nev>>

\* get_entry_info_non_blocking
GetEntryInfoNonBlocking(views, id, idx) ==
    IF ~views[id].ok
    THEN [res |-> "UnknownSearchView", entry |-> NullEntry, selected |-> FALSE]
    ELSE LET entry == GetEntryForIdx(views[id], idx)
         IN IF entry = NullEntry
            THEN [res |-> "EntryNotFound", entry |-> NullEntry, selected |-> FALSE]
            ELSE [res |-> "Success", entry |-> entry,
                  selected |-> IsSelected(views[id], entry)]

\* get_entry_info: under the mutex
GetEntryInfo ==
    /\ wq_pc = "item_info"
    /\ mutex = "none"
    /\ mutex' = DatabaseUnlock("wq")
    /\ LET r == GetEntryInfoNonBlocking(search_results, cur.view_id, cur.start_idx)
       IN /\ loc' = [loc EXCEPT !.entry = r.entry, !.selected = r.selected]
          /\ wq_pc' = IF r.entry = NullEntry THEN "idle" ELSE "item_info_emit"
    /\ UNCHANGED <<disk, call, test, reply, work_queue, cur, prev, pre, store, flags, search_results,
                   mon_pc, idle, delivered, nqueued, nstores, nmon, nev>>

\* work_queue_thread: emit item-info-ready for the info found
ItemInfoEmit ==
    /\ wq_pc = "item_info_emit"
    /\ idle' = EmitSignal(idle, ItemInfoEvent(cur.seq, cur.view_id, cur.start_idx,
                                              loc.entry, loc.selected, FALSE))
    /\ loc' = Emitted(loc, "item-info-ready")
    /\ wq_pc' = "idle"
    /\ UNCHANGED <<disk, call, test, reply, work_queue, cur, prev, pre, store, flags, search_results,
                   mutex, mon_pc, delivered, nqueued, nstores, nmon, nev>>

-----------------------------------------------------------------------------
(* The non-blocking readers, called on the embedder's thread *)

\* a trylock that always succeeds
MutexTryLockAlways(m) == TRUE

\* g_mutex_trylock: whether the caller gets the mutex
MutexTryLock(m) == m = "none"

\* fsearch_database_try_get_search_info
TryGetSearchInfo ==
    /\ Alive
    /\ \E id \in ViewIds :
          reply' = [op |-> "search_info",
                    res |-> IF ~MutexTryLock(mutex) THEN "Busy"
                            ELSE IF ~search_results[id].ok THEN "UnknownSearchView"
                            ELSE "Success"]
    /\ UNCHANGED <<disk, call, test, work_queue, wq_pc, cur, prev, pre, loc, store,
                   flags, search_results,
                   mutex, mon_pc, idle, delivered, nqueued, nstores, nmon, nev>>

\* fsearch_database_try_get_item_info
TryGetItemInfo ==
    /\ Alive
    /\ \E id \in ViewIds, idx \in {0, UintModulus - 1} :
          reply' = [op |-> "item_info",
                    res |-> IF ~MutexTryLock(mutex) THEN "Busy"
                            ELSE GetEntryInfoNonBlocking(search_results, id, idx).res]
    /\ UNCHANGED <<disk, call, test, work_queue, wq_pc, cur, prev, pre, loc, store,
                   flags, search_results,
                   mutex, mon_pc, idle, delivered, nqueued, nstores, nmon, nev>>

\* fsearch_database_try_get_database_info
TryGetDatabaseInfo ==
    /\ Alive
    /\ reply' = [op |-> "database_info",
                 res |-> IF ~MutexTryLock(mutex) THEN "Busy" ELSE "Success"]
    /\ UNCHANGED <<disk, call, test, work_queue, wq_pc, cur, prev, pre, loc, store,
                   flags, search_results,
                   mutex, mon_pc, idle, delivered, nqueued, nstores, nmon, nev>>

-----------------------------------------------------------------------------
(* index_event_cb, on the installed store's monitor thread *)

InStore(e) ==
    IF IsFolder(e) THEN e \in store.folder_container["Name"].es
    ELSE e \in store.file_container["Name"].es

\* an add that does not evaluate the query
SearchViewResultsAddAll(v, es) ==
    IF ~v.ok THEN v
    ELSE [v EXCEPT !.file_container.es = @ \cup {e \in es : ~IsFolder(e)},
                   !.folder_container.es = @ \cup {e \in es : IsFolder(e)}]

\* search_view_result_add over the entries of one event
SearchViewResultsAdd(v, es) ==
    IF ~v.ok THEN v
    ELSE [v EXCEPT
            !.file_container.es =
                @ \cup {e \in es : ~IsFolder(e) /\ QueryMatch(v.query, e)},
            !.folder_container.es =
                @ \cup {e \in es : IsFolder(e) /\ QueryMatch(v.query, e)}]

\* a remove that leaves the selections alone
SearchViewResultsRemoveUnselected(v, es) ==
    IF ~v.ok THEN v
    ELSE LET gone == {e \in es : QueryMatch(v.query, e)}
         IN [v EXCEPT !.file_container.es = @ \ gone,
                      !.folder_container.es = @ \ gone]

\* search_view_result_remove over the entries of one event
SearchViewResultsRemove(v, es) ==
    IF ~v.ok THEN v
    ELSE LET gone == {e \in es : QueryMatch(v.query, e)}
         IN [v EXCEPT !.file_container.es = @ \ gone,
                      !.folder_container.es = @ \ gone,
                      !.file_selection = @ \ gone,
                      !.folder_selection = @ \ gone]

\* the monitor of a member index reports a change: StartModifying calls
\* database_lock
MonStartModifying ==
    /\ Alive
    /\ store.ok /\ store.monitoring /\ store.indices # {}
    /\ mon_pc = "idle"
    /\ nmon < MaxBrackets
    /\ nmon' = nmon + 1
    /\ mon_pc' = "waitlock"
    /\ UNCHANGED <<disk, call, test, reply, work_queue, wq_pc, cur, prev, pre, loc, store, flags,
                   search_results, mutex, idle, delivered, nqueued, nstores, nev>>

\* a database_lock that returns without the mutex
DatabaseLockSkipped(m, who) == m

\* database_lock: the holder of the mutex once g_mutex_lock has returned
DatabaseLock(m, who) == who

MonLock ==
    /\ Alive
    /\ mon_pc = "waitlock"
    /\ mutex = "none"
    /\ mutex' = DatabaseLock(mutex, "mon")
    /\ mon_pc' = "in"
    /\ UNCHANGED <<disk, call, test, reply, work_queue, wq_pc, cur, prev, pre, loc, store, flags,
                   search_results, idle, delivered, nqueued, nstores, nmon, nev>>

\* FSEARCH_DATABASE_INDEX_EVENT_ENTRY_CREATED
MonEntryCreated ==
    /\ Alive
    /\ mon_pc = "in"
    /\ nev < MaxEvents
    /\ nev' = nev + 1
    /\ \E created \in {x \in Entries : IndexOf(x) \in store.indices /\ ~InStore(x)} :
        LET es == {created} IN
          /\ search_results' = [id \in ViewIds |-> SearchViewResultsAdd(search_results[id], es)]
          /\ store' = IndexStoreAddEntries(
                          IndexStoreAddEntries(store, {e \in es : IsFolder(e)}, TRUE),
                          {e \in es : ~IsFolder(e)}, FALSE)
    /\ UNCHANGED <<disk, call, test, reply, work_queue, wq_pc, cur, prev, pre, loc, flags, mutex, mon_pc,
                   idle, delivered, nqueued, nstores, nmon>>

\* FSEARCH_DATABASE_INDEX_EVENT_ENTRY_DELETED
MonEntryDeleted ==
    /\ Alive
    /\ mon_pc = "in"
    /\ nev < MaxEvents
    /\ nev' = nev + 1
    /\ \E deleted \in {x \in Entries : IndexOf(x) \in store.indices /\ InStore(x)} :
        LET es == {deleted} IN
          /\ search_results' = [id \in ViewIds |-> SearchViewResultsRemove(search_results[id], es)]
          /\ store' = IndexStoreRemoveFiles(
                          IndexStoreRemoveFolders(store, {e \in es : IsFolder(e)}),
                          {e \in es : ~IsFolder(e)})
    /\ UNCHANGED <<disk, call, test, reply, work_queue, wq_pc, cur, prev, pre, loc, flags, mutex, mon_pc,
                   idle, delivered, nqueued, nstores, nmon>>

\* search_views_updated_cb for every view, in the order of the view ids
RECURSIVE ViewsUpdated(_, _)
ViewsUpdated(q, ids) ==
    IF ids = {} THEN q
    ELSE LET id == CHOOSE i \in ids : \A j \in ids : i <= j
             v == search_results[id]
         IN ViewsUpdated(
                EmitSignal(q, SearchInfoEvent("selection-changed", 0, id, v, TRUE)),
                ids \ {id})

\* FSEARCH_DATABASE_INDEX_EVENT_END_MODIFYING
MonEndModifying ==
    /\ Alive
    /\ mon_pc = "in"
    /\ idle' = EmitSignal(ViewsUpdated(idle, RegisteredViews(search_results)),
                          Event("database-changed", 0, 0, GetNumDatabaseFiles(store),
                                GetNumDatabaseFolders(store), TRUE))
    /\ mutex' = DatabaseUnlock(mutex)
    /\ mon_pc' = "idle"
    /\ UNCHANGED <<disk, call, test, reply, work_queue, wq_pc, cur, prev, pre, loc, store, flags,
                   search_results, delivered, nqueued, nstores, nmon, nev>>

-----------------------------------------------------------------------------

\* the embedder's requests and the work-queue thread
WorkNext ==
    \/ QueueWork
    \/ PopWork
    \/ LoadStart
    \/ LoadInstall
    \/ SaveStart
    \/ SaveToFile
    \/ SaveFinish
    \/ ScanCheck
    \/ ScanBuild
    \/ ScanLock
    \/ ScanSwap
    \/ ScanClear
    \/ RescanStart
    \/ RescanBuild
    \/ RescanLock
    \/ RescanSwap
    \/ RescanClear
    \/ SearchLock
    \/ SearchBody
    \/ SearchFinish
    \/ SortStart
    \/ SortBody

\* the installed store's monitor thread
MonNext ==
    \/ MonStartModifying
    \/ MonLock
    \/ MonEntryCreated
    \/ MonEntryDeleted
    \/ MonEndModifying

Next == WorkNext \/ MonNext

\* the engine; idle keeps every event posted, in the order posted
Spec == Init /\ [][Next]_vars

\* the steps of the work-queue thread: the pop and the handlers, without the
\* callers that queue work
WorkQueueThread ==
    \/ PopWork
    \/ LoadStart \/ LoadInstall
    \/ SaveStart \/ SaveToFile \/ SaveFinish
    \/ ScanCheck \/ ScanBuild \/ ScanLock \/ ScanSwap \/ ScanClear
    \/ RescanStart \/ RescanBuild \/ RescanLock \/ RescanSwap \/ RescanClear
    \/ SearchLock \/ SearchBody \/ SearchFinish
    \/ SortStart \/ SortBody

\* the work-queue thread and the monitor thread are threads of their own: one
\* that can take its next step takes it, and a monitor callback that waits for
\* the mutex or holds it goes on to the end of its bracket
SpecQuit ==
    /\ Init /\ [][Next]_vars
    /\ WF_vars(WorkQueueThread)
    /\ WF_vars(MonLock)
    /\ WF_vars(MonEndModifying)

\* the engine together with the embedder's main loop, which dispatches the
\* posted events
NextDelivery == Next \/ Deliver

SpecDelivery == Init /\ [][NextDelivery]_vars

-----------------------------------------------------------------------------
(* The engine from a state with a store installed and views registered *)

\* work items the embedder pushes from that state on
MaxViewWork == 2

\* the indices the embedder passes
Indices == {-1, 0, 2, 4, IntMax}

SelectionTypes ==
    {"Clear", "All", "Invert", "Select", "Toggle", "SelectRange", "ToggleRange"}
RangeTypes == {"SelectRange", "ToggleRange"}

\* the endpoints of the ranges the embedder passes
RangePairs == {<<0, 2>>, <<2, 0>>, <<2, 4>>, <<4, 2>>, <<-1, 0>>, <<0, IntMax>>}

\* the ModifySelection items pushed
SelectionInputs ==
    {SelectionWork(1, t, a, 0) : t \in {"Select", "Toggle"}, a \in Indices}
    \cup {SelectionWork(1, t, a, 0) : t \in {"Clear", "All", "Invert"}, a \in {0, 4}}
    \cup {SelectionWork(1, t, p[1], p[2]) : t \in RangeTypes, p \in RangePairs}
    \cup {SelectionWork(2, "All", 0, 0)}

\* the GetItemInfo items pushed
ItemInfoInputs == {ItemInfoWork(1, idx) : idx \in {0, 1, 4, UintModulus - 1}}

ViewWorkInputs == SelectionInputs \cup SortInputs \cup ItemInfoInputs

\* the store after a Scan of IncB that scanned both includes
ViewStore ==
    IndexStoreStartMonitoring(
        IndexStoreStart(IndexStoreNew(1, IncB, ExcA, 0), IncB, "never"))

\* the view a Search of that store registers
ViewOf(q, key, dir) ==
    SearchViewNew(q, {e \in IndexStoreGetFiles(ViewStore, key).es : QueryMatch(q, e)},
                  {e \in IndexStoreGetFolders(ViewStore, key).es : QueryMatch(q, e)},
                  key, "None", dir, 1)

\* after LoadFromFile, Scan(IncB, ExcA, 0) and one or two Searches, every
\* event dispatched; the counters of the history start again
InitViews ==
    /\ store = ViewStore
    /\ flags = 0
    /\ nstores = 1
    /\ search_results \in
         {[id \in ViewIds |-> IF id = 1 THEN ViewOf(q, key, dir) ELSE v2] :
             q \in Queries, key \in {"Name", "Size"}, dir \in SortTypes,
             v2 \in {NoView, ViewOf("q1", "Name", "Asc")}}
    /\ work_queue = <<>>
    /\ wq_pc = "idle"
    /\ cur = NoWork
    /\ prev = NoPrev
    /\ pre = NoPre
    /\ loc = NoLocals
    /\ mutex = "none"
    /\ mon_pc = "idle"
    /\ idle = <<>>
    /\ delivered = <<>>
    /\ nqueued = 0
    /\ nmon = 0
    /\ nev = 0
    /\ reply = NoReply
    /\ disk = NoDisk
    /\ call = NoCall
    /\ test = NoTest

\* fsearch_database_queue_work
QueueViewWork ==
    /\ Alive
    /\ nqueued < MaxViewWork
    /\ \E w \in ViewWorkInputs :
          work_queue' = QueuePush(work_queue, [w EXCEPT !.seq = nqueued + 1])
    /\ nqueued' = nqueued + 1
    /\ UNCHANGED <<disk, call, test, reply, wq_pc, cur, prev, pre, loc, store, flags, search_results,
                   mutex, mon_pc, idle, delivered, nstores, nmon, nev>>

NextViews ==
    \/ QueueViewWork
    \/ PopWork
    \/ SortStart
    \/ SortBody
    \/ ModifySelection
    \/ ModifySelectionOverflow
    \/ GetEntryInfo
    \/ ItemInfoEmit

SpecViews == InitViews /\ [][NextViews]_vars

-----------------------------------------------------------------------------
(* The engine of registered views next to a thread that reads *)

\* the number of Searches queued next to the readers
MaxReaderWork == 1

\* the calls of an embedder to the non-blocking readers
ReadNext ==
    \/ TryGetSearchInfo
    \/ TryGetItemInfo
    \/ TryGetDatabaseInfo

\* fsearch_database_queue_work, for the Search the readers run next to
QueueSearchWork ==
    /\ Alive
    /\ nqueued < MaxReaderWork
    /\ \E w \in SearchInputs :
          work_queue' = QueuePush(work_queue, [w EXCEPT !.seq = nqueued + 1])
    /\ nqueued' = nqueued + 1
    /\ UNCHANGED <<disk, call, test, reply, wq_pc, cur, prev, pre, loc, store, flags, search_results,
                   mutex, mon_pc, idle, delivered, nstores, nmon, nev>>

\* the work-queue thread handling Searches, the monitor thread and a thread
\* calling fsearch_database_try_get_*
\* fsearch_database_queue_work, for the ModifySelection that selects every
\* entry of view 1
QueueSelectAllWork ==
    /\ Alive
    /\ nqueued < MaxReaderWork
    /\ work_queue' = QueuePush(work_queue,
                               [SelectionWork(1, "All", 0, 0) EXCEPT !.seq = nqueued + 1])
    /\ nqueued' = nqueued + 1
    /\ UNCHANGED <<disk, call, test, reply, wq_pc, cur, prev, pre, loc, store, flags, search_results,
                   mutex, mon_pc, idle, delivered, nstores, nmon, nev>>

NextReaders ==
    \/ QueueSearchWork
    \/ QueueSelectAllWork
    \/ PopWork
    \/ ModifySelection
    \/ SearchLock
    \/ SearchBody
    \/ SearchFinish
    \/ MonNext
    \/ ReadNext

SpecReaders == InitViews /\ [][NextReaders]_vars

-----------------------------------------------------------------------------
(* The snapshot file: db_file_save and db_file_load *)

DATABASE_MAJOR_VERSION == 1
DATABASE_MINOR_VERSION == 0
DATABASE_MAGIC_NUMBER == "FSDB"

\* FsearchDatabaseIndexProperty: the ids of the sort keys, Name being 0
KeyOfId == <<"Name", "Path", "Size", "MTime", "Ext", "FileType">>
NumDatabaseIndexProperties == Len(KeyOfId)

\* DATABASE_INDEX_PROPERTY_FLAG_SIZE and _MODIFICATION_TIME as bits of the
\* flags
FlagSize == 1
FlagMTime == 2
HasFlagBit(fl, bit) == (fl \div bit) % 2 = 1

\* what the scanner recorded of an entry: name, size, modification time,
\* parent folder (none for a root)
EntryName(e) ==
    CASE e = "d1" -> <<"d", "1">> [] e = "f1" -> <<"f", "1">>
      [] e = "f2" -> <<"f", "2">> [] e = "f3" -> <<"f", "3">>
EntrySize(e) == KeyRank("Size", e)
EntryMTime(e) == KeyRank("MTime", e)
EntryParent(e) == IF e \in {"f1", "f2"} THEN "d1" ELSE NullEntry

\* fsearch_database_entries_container_get_joined: the entries in the order of
\* the container's key, an empty array for a NULL container
ContainerGetJoined(c, key) ==
    [i \in 1..NumEntries(c) |-> ContainerGetEntry(c, key, i - 1)]

\* db_entry_get_idx after update_folder_indices / save_files: the position in
\* the name-sorted array, from 0
EntryIdx(arr, e) == (CHOOSE i \in 1..Len(arr) : arr[i] = e) - 1

\* the bits of uint8_t, scaled down, and its largest value
ByteBits == 2
ByteModulus == 2 ^ ByteBits
ByteMax == ByteModulus - 1

\* get_name_offset, the loop: offset grows while the characters agree, neither
\* string has ended and offset is below the largest uint8_t
RECURSIVE NameOffsetLoop(_, _, _)
NameOffsetLoop(old, new, offset) ==
    IF /\ offset < Len(old) /\ offset < Len(new)
       /\ old[offset + 1] = new[offset + 1]
       /\ offset < ByteMax
    THEN NameOffsetLoop(old, new, offset + 1)
    ELSE offset

\* get_name_offset: the length of the common prefix of two names, capped
GetNameOffset(old, new) == NameOffsetLoop(old, new, 0)

\* save_entry_super_elements, the name: name_offset, name_len as a uint8_t and
\* the name_len characters after name_offset
SaveName(previous, new_entry_name) ==
    LET name_offset == GetNameOffset(previous, new_entry_name)
        name_len == (Len(new_entry_name) - name_offset) % ByteModulus
    IN [name_offset |-> name_offset,
        name_len |-> name_len,
        name |-> SubSeq(new_entry_name, name_offset + 1, name_offset + name_len)]

\* save_folders / save_files: the records of a block of names; previous is the
\* name written last
RECURSIVE SaveNames(_, _)
SaveNames(names, previous) ==
    IF names = <<>> THEN <<>>
    ELSE <<SaveName(previous, Head(names))>> \o SaveNames(Tail(names), Head(names))

\* a decoder that appends to the whole previous name
LoadNameKeepsPrevious(previous, r) == previous \o r.name

\* load_entry_super_elements_from_memory, the name: previous_entry_name erased
\* from name_offset on (g_string_erase leaves a shorter string as it is), then
\* the new characters appended
LoadName(previous, r) ==
    (IF r.name_offset <= Len(previous) THEN SubSeq(previous, 1, r.name_offset)
     ELSE previous) \o r.name


\* save_entry_super_elements: the fields written for one entry after
\* previous_entry_name
SaveEntrySuperElements(fl, e, parent_idx, previous) ==
    LET n == SaveName(previous, EntryName(e))
    IN [name_offset |-> n.name_offset,
        name_len |-> n.name_len,
        name |-> n.name,
        size |-> IF HasFlagBit(fl, FlagSize) THEN EntrySize(e) ELSE -1,
        mtime |-> IF HasFlagBit(fl, FlagMTime) THEN EntryMTime(e) ELSE -1,
        parent_idx |-> parent_idx]

\* the bytes one written entry takes; a folder has two more for db_index
SuperElementBytes(r) ==
    1 + 1 + r.name_len + (IF r.size # -1 THEN 8 ELSE 0)
      + (IF r.mtime # -1 THEN 8 ELSE 0) + 4
RECURSIVE BlockBytes(_, _)
BlockBytes(rs, extra) ==
    IF rs = <<>> THEN 0
    ELSE extra + SuperElementBytes(Head(rs)) + BlockBytes(Tail(rs), extra)

\* save_folders: a root folder is written with its own idx as parent_idx
SaveFolders(fl, folders) ==
    [i \in 1..Len(folders) |->
        LET e == folders[i]
            parent_idx == IF EntryParent(e) # NullEntry
                          THEN EntryIdx(folders, EntryParent(e))
                          ELSE EntryIdx(folders, e)
        IN SaveEntrySuperElements(fl, e, parent_idx,
                                  IF i = 1 THEN <<>> ELSE EntryName(folders[i - 1]))]

\* save_files
SaveFiles(fl, folders, files) ==
    [i \in 1..Len(files) |->
        SaveEntrySuperElements(fl, files[i], EntryIdx(folders, EntryParent(files[i])),
                               IF i = 1 THEN <<>> ELSE EntryName(files[i - 1]))]

\* index_store_get_num_fast_sort_indices: the keys, Name included, that have
\* both containers
IndexStoreGetNumFastSortIndices(st) ==
    Cardinality({id \in 1..NumDatabaseIndexProperties :
                    /\ st.folder_container[KeyOfId[id]].ok
                    /\ st.file_container[KeyOfId[id]].ok})

\* save_sorted_arrays: the number written in front of the triples
SaveNumSortedArrays(st) == IndexStoreGetNumFastSortIndices(st)

\* save_sorted_arrays: one triple for every id from 1 whose containers exist,
\* each array as the idx of its entries
RECURSIVE SaveSortedTriples(_, _, _, _)
SaveSortedTriples(st, folders, files, id) ==
    IF id >= NumDatabaseIndexProperties THEN <<>>
    ELSE LET key == KeyOfId[id + 1]
             fc == IndexStoreGetFolders(st, key)
             c == IndexStoreGetFiles(st, key)
             rest == SaveSortedTriples(st, folders, files, id + 1)
         IN IF ~fc.ok \/ ~c.ok THEN rest
            ELSE <<[id |-> id,
                    folders |-> [i \in 1..Len(folders) |->
                                    EntryIdx(folders, ContainerGetJoined(fc, key)[i])],
                    files |-> [i \in 1..Len(files) |->
                                  EntryIdx(files, ContainerGetJoined(c, key)[i])]]>>
                 \o rest

\* db_file_save: everything written to fsearch.db.tmp before the seek back,
\* the two block sizes still 0
DbFileWritten(st) ==
    LET folders == ContainerGetJoined(IndexStoreGetFolders(st, "Name"), "Name")
        files == ContainerGetJoined(IndexStoreGetFiles(st, "Name"), "Name")
    IN [kind |-> "snapshot",
        magic |-> DATABASE_MAGIC_NUMBER,
        majorver |-> DATABASE_MAJOR_VERSION,
        minorver |-> DATABASE_MINOR_VERSION,
        index_flags |-> st.flags,
        num_folders |-> Len(folders),
        num_files |-> Len(files),
        folder_block_size |-> 0,
        file_block_size |-> 0,
        num_indexes |-> 0,
        num_excludes |-> 0,
        folders |-> SaveFolders(st.flags, folders),
        files |-> SaveFiles(st.flags, folders, files),
        num_sorted_arrays |-> SaveNumSortedArrays(st),
        sorted |-> SaveSortedTriples(st, folders, files, 1)]

\* db_file_save: the file after the block sizes were written over the zeros
DbFilePatched(f) ==
    [f EXCEPT !.folder_block_size = BlockBytes(f.folders, 2),
              !.file_block_size = BlockBytes(f.files, 0)]

\* the complete snapshot of a store
DbFileEncode(st) == DbFilePatched(DbFileWritten(st))

\* a header check that lets the minor versions 0 and 1 pass
LoadHeaderUpToOne(f) ==
    /\ f.magic = DATABASE_MAGIC_NUMBER
    /\ f.majorver = DATABASE_MAJOR_VERSION
    /\ ~(f.minorver > 1)

\* load_header
LoadHeader(f) ==
    /\ f.magic = DATABASE_MAGIC_NUMBER
    /\ f.majorver = DATABASE_MAJOR_VERSION
    /\ ~(f.minorver > DATABASE_MINOR_VERSION)

\* load_entry_super_elements_from_memory over a block: the names, rebuilt from
\* the previous name, with the other fields
RECURSIVE LoadNames(_, _)
LoadNames(rs, previous) ==
    IF rs = <<>> THEN <<>>
    ELSE LET name == LoadName(previous, Head(rs))
         IN <<[name |-> name, size |-> Head(rs).size, mtime |-> Head(rs).mtime,
               parent_idx |-> Head(rs).parent_idx]>>
            \o LoadNames(Tail(rs), name)

\* load_folders / load_files: the block is as long as the header says and
\* holds the number of entries the header says
LoadBlockOk(rs, num, block_size, extra) ==
    Len(rs) = num /\ BlockBytes(rs, extra) = block_size

\* load_sorted_entries: every index names an entry of the source array
LoadSortedEntriesOk(perm, num) ==
    Len(perm) = num /\ \A i \in 1..Len(perm) : perm[i] >= 0 /\ perm[i] < num

\* load_sorted_arrays: num_sorted_arrays triples are read; a read past the end
\* of the file fails
LoadSortedArraysOk(f) ==
    \A i \in 1..f.num_sorted_arrays :
        /\ i <= Len(f.sorted)
        /\ f.sorted[i].id >= 1 /\ f.sorted[i].id < NumDatabaseIndexProperties
        /\ LoadSortedEntriesOk(f.sorted[i].folders, f.num_folders)
        /\ LoadSortedEntriesOk(f.sorted[i].files, f.num_files)

\* db_file_load up to its return: whether every read succeeded, and the arrays
\* that were decoded
DbFileParse(f) ==
    IF f.kind # "snapshot" THEN [ok |-> FALSE, header |-> FALSE]
    ELSE IF ~LoadHeader(f) THEN [ok |-> FALSE, header |-> FALSE]
    ELSE [ok |-> /\ LoadBlockOk(f.folders, f.num_folders, f.folder_block_size, 2)
                 /\ LoadBlockOk(f.files, f.num_files, f.file_block_size, 0)
                 /\ LoadSortedArraysOk(f),
          header |-> TRUE,
          index_flags |-> f.index_flags,
          folders |-> LoadNames(f.folders, <<>>),
          files |-> LoadNames(f.files, <<>>),
          sorted |-> IF f.num_sorted_arrays <= Len(f.sorted)
                     THEN SubSeq(f.sorted, 1, f.num_sorted_arrays)
                     ELSE f.sorted]

\* db_file_load: the result and *store_out, which is never assigned
DbFileLoad(f) == [res |-> DbFileParse(f).ok, store_out |-> NoStore]

\* a file that fopen has created or truncated, and one that a failed write
\* left incomplete
EmptyFile == [kind |-> "empty"]
PartialFile == [kind |-> "partial"]

\* the stores a snapshot is taken of: started on the include IncA, with and
\* without the size and modification time of the entries, f2 added or not
SnapshotFlags == {0, FlagSize, FlagSize + FlagMTime}
SnapshotStores ==
    LET started(fl) == IndexStoreStart(IndexStoreNew(1, IncA, ExcA, fl), IncA, "never")
    IN {started(fl) : fl \in SnapshotFlags}
        \cup {IndexStoreAddEntries(started(fl), {"f2"}, FALSE) : fl \in SnapshotFlags}

\* the files found at fsearch.db before the call: none, or a snapshot written
\* by this or by another version of the program
Magics == {"FSDB", "FSDX"}
MajorVersions == {1, 2}
MinorVersions == {0, 1, 2}
PreviousSnapshots ==
    {NoFile}
        \cup {[DbFileEncode(IndexStoreStart(IndexStoreNew(1, IncA, ExcA, 0), IncA, "never"))
                  EXCEPT !.magic = m, !.majorver = ma, !.minorver = mi] :
                 m \in Magics, ma \in MajorVersions, mi \in MinorVersions}

\* the snapshot directory and the store before db_file_save or db_file_load is
\* called; the engine is idle, old keeps the file found at fsearch.db
InitFile ==
    /\ work_queue = <<>> /\ wq_pc = "idle" /\ cur = NoWork /\ prev = NoPrev
    /\ pre = NoPre /\ loc = NoLocals /\ flags = 0
    /\ search_results = [id \in ViewIds |-> NoView]
    /\ mutex = "none" /\ mon_pc = "idle" /\ idle = <<>> /\ delivered = <<>>
    /\ reply = NoReply /\ nev = 0 /\ nqueued = 0 /\ nstores = 1 /\ nmon = 0
    /\ store \in SnapshotStores
    /\ disk \in {[NoDisk EXCEPT !.db = f] : f \in PreviousSnapshots}
    /\ call = [NoCall EXCEPT !.old = disk.db]
    /\ test = NoTest

\* what a write through the handle of the saving call leaves at the path
\* fsearch.db.tmp: nothing new once the path no longer names the open file
WriteTmp(d, f) == IF d.linked THEN [d EXCEPT !.tmp = f] ELSE d

\* what is left of the file when the block sizes are written: the complete
\* snapshot, or the two sizes behind a hole when the file had been truncated
PatchTmp(d) ==
    IF d.tmp.kind = "snapshot" THEN WriteTmp(d, DbFilePatched(d.tmp))
    ELSE WriteTmp(d, PartialFile)

\* every variable of the engine
engine_vars == <<work_queue, wq_pc, cur, prev, pre, loc, flags, search_results,
                 mutex, mon_pc, idle, delivered, nqueued, nstores, nmon, nev,
                 reply, test>>

\* db_file_save, file_open_locked(path_full_temp, "wb"): fopen creates or
\* truncates the file, flock takes the lock
SaveOpen ==
    /\ call.op = "none"
    /\ call' = [call EXCEPT !.op = "save", !.pc = "write"]
    /\ disk' = [disk EXCEPT !.tmp = EmptyFile, !.tmp_lock = "first", !.linked = TRUE]
    /\ UNCHANGED <<store, engine_vars>>

\* db_file_save from save_header to save_sorted_arrays: everything is written,
\* or a write fails part of the way
SaveWrite ==
    /\ call.op = "save" /\ call.pc = "write"
    /\ \/ /\ disk' = WriteTmp(disk, DbFileWritten(store))
          /\ call' = [call EXCEPT !.pc = "patch"]
       \/ /\ disk' = WriteTmp(disk, PartialFile)
          /\ call' = [call EXCEPT !.pc = "fail"]
    /\ UNCHANGED <<store, engine_vars>>

\* db_file_save: fseek to the block sizes and write them; either may fail
SavePatch ==
    /\ call.op = "save" /\ call.pc = "patch"
    /\ \/ /\ disk' = PatchTmp(disk)
          /\ call' = [call EXCEPT !.pc = "unlink"]
       \/ /\ disk' = disk
          /\ call' = [call EXCEPT !.pc = "fail"]
    /\ UNCHANGED <<store, engine_vars>>

\* db_file_save: unlink(path_full)
SaveUnlink ==
    /\ call.op = "save" /\ call.pc = "unlink"
    /\ disk' = [disk EXCEPT !.db = NoFile]
    /\ call' = [call EXCEPT !.pc = "close"]
    /\ UNCHANGED <<store, engine_vars>>

\* db_file_save: fclose(fp), which gives up the lock
SaveClose ==
    /\ call.op = "save" /\ call.pc = "close"
    /\ disk' = [disk EXCEPT !.tmp_lock = "none", !.linked = FALSE]
    /\ call' = [call EXCEPT !.pc = "rename"]
    /\ UNCHANGED <<store, engine_vars>>

\* db_file_save: rename(path_full_temp, path_full) and return true, or the
\* rename fails; it always fails when fsearch.db.tmp has been removed
SaveRename ==
    /\ call.op = "save" /\ call.pc = "rename"
    /\ \/ /\ disk.tmp.kind # "none"
          /\ disk' = [disk EXCEPT !.db = disk.tmp, !.tmp = NoFile]
          /\ call' = [call EXCEPT !.pc = "done", !.res = TRUE, !.saved = TRUE]
       \/ /\ disk' = disk
          /\ call' = [call EXCEPT !.pc = "fail"]
    /\ UNCHANGED <<store, engine_vars>>

\* db_file_save, save_fail: fclose, unlink(path_full_temp), return false
SaveFail ==
    /\ call.op = "save" /\ call.pc = "fail"
    /\ disk' = [disk EXCEPT !.tmp = NoFile, !.tmp_lock = "none", !.linked = FALSE]
    /\ call' = [call EXCEPT !.pc = "done", !.res = FALSE]
    /\ UNCHANGED <<store, engine_vars>>

\* a second db_file_save on the same directory while the first holds the lock,
\* file_open_locked: fopen "wb" truncates the file at the path, flock fails,
\* the handle is closed
SecondOpen ==
    /\ call.op = "save" /\ call.second = "none"
    /\ disk.tmp_lock = "first"
    /\ disk' = [disk EXCEPT !.tmp = EmptyFile]
    /\ call' = [call EXCEPT !.second = "fail"]
    /\ UNCHANGED <<store, engine_vars>>

\* the second db_file_save, save_fail: unlink(path_full_temp), return false
SecondFail ==
    /\ call.second = "fail"
    /\ disk' = [disk EXCEPT !.tmp = NoFile, !.linked = FALSE]
    /\ call' = [call EXCEPT !.second = "done"]
    /\ UNCHANGED <<store, engine_vars>>

\* db_file_load of fsearch.db, before a save or after one has returned
LoadFile ==
    /\ \/ call.op = "none"
       \/ call.op = "save" /\ call.pc = "done" /\ call.second \in {"none", "done"}
    /\ disk.db.kind # "none"
    /\ call' = [call EXCEPT !.op = "load", !.pc = "done",
                            !.res = DbFileLoad(disk.db).res,
                            !.header = DbFileParse(disk.db).header,
                            !.store_out = DbFileLoad(disk.db).store_out]
    /\ UNCHANGED <<disk, store, engine_vars>>

NextFile ==
    \/ SaveOpen \/ SaveWrite \/ SavePatch \/ SaveUnlink \/ SaveClose
    \/ SaveRename \/ SaveFail \/ SecondOpen \/ SecondFail \/ LoadFile

SpecFile == InitFile /\ [][NextFile]_vars

-----------------------------------------------------------------------------
(* The index store on its own: index_store_start, add_entries, remove_* *)

\* a store that finds no index with the same id
IndexStoreHasIndexNever(members, id) == FALSE

\* index_store_has_index_with_same_id, over the ids of self->indices
IndexStoreHasIndexWithSameId(members, id) ==
    \E i \in 1..Len(members) : members[i] = id

\* index_store_start, the scan loop: the ids of the indices whose scan
\* succeeded, one index for every include descriptor, in the order of the
\* include manager
RECURSIVE ScannedIndices(_, _)
ScannedIndices(includes, scanned) ==
    IF includes = <<>> THEN <<>>
    ELSE (IF Head(includes) \in scanned THEN <<Head(includes)>> ELSE <<>>)
            \o ScannedIndices(Tail(includes), scanned)

\* index_store_start, the merge loop: self->indices after the scanned indices
\* were added; an index created with the flags of the store always has them
RECURSIVE IndexStoreMerge(_, _)
IndexStoreMerge(members, indices) ==
    IF indices = <<>> THEN members
    ELSE IF IndexStoreHasIndexWithSameId(members, Head(indices))
         THEN IndexStoreMerge(members, Tail(indices))
         ELSE IndexStoreMerge(Append(members, Head(indices)), Tail(indices))

\* self->indices when index_store_start returns
IndexStoreStartMembers(st, members, includes, scanned, cancel) ==
    IF st.running \/ cancel = "scan" THEN members
    ELSE IF cancel = "sort" THEN <<>>
    ELSE IndexStoreMerge(members, ScannedIndices(includes, scanned))

\* the lists of include descriptors an include manager with the ids inc can
\* hold; two descriptors may carry one id
IncludeLists(inc) ==
    {l \in UNION {[1..n -> inc] : n \in 1..(Cardinality(inc) + 1)} :
        {l[i] : i \in 1..Len(l)} = inc}

\* when the cancellable of a call is tripped
CancelPoints == {"never", "scan", "sort", "late"}

\* a store index_store_new has just returned
InitStore ==
    /\ work_queue = <<>> /\ wq_pc = "idle" /\ cur = NoWork /\ prev = NoPrev
    /\ pre = NoPre /\ loc = NoLocals /\ flags = 0
    /\ search_results = [id \in ViewIds |-> NoView]
    /\ mutex = "none" /\ mon_pc = "idle" /\ idle = <<>> /\ delivered = <<>>
    /\ reply = NoReply /\ nev = 0 /\ nqueued = 0 /\ nstores = 1 /\ nmon = 0
    /\ disk = NoDisk
    /\ \E inc \in {IncA, IncB}, fl \in {0, 1} :
          store = IndexStoreNew(1, inc, ExcA, fl)
    /\ \E l \in IncludeLists(store.inc) : call = [NoCall EXCEPT !.includes = l]
    /\ test = NoTest

\* index_store_start(store, cancellable)
StoreStart ==
    /\ \E scanned \in SUBSET store.inc, cancel \in CancelPoints :
          /\ store' = IndexStoreStart(store, scanned, cancel)
          /\ call' = [call EXCEPT
                        !.op = "start", !.scanned = scanned, !.cancel = cancel,
                        !.before = store,
                        !.members = IndexStoreStartMembers(store, call.members,
                                                           call.includes, scanned,
                                                           cancel)]
    /\ UNCHANGED <<disk, engine_vars>>

\* index_store_add_entries(store, entries, is_dir) with the entries the
\* monitor of a member index found
StoreAddEntries ==
    /\ \E e \in Folders \cup Files :
          /\ IndexOf(e) \in store.indices
          /\ store' = IndexStoreAddEntries(store, {e}, IsFolder(e))
    /\ call' = [call EXCEPT !.op = "add"]
    /\ UNCHANGED <<disk, engine_vars>>

\* index_store_remove_folders / index_store_remove_files of a member index
StoreRemoveEntries ==
    /\ \E e \in Folders \cup Files :
          /\ IndexOf(e) \in store.indices
          /\ store' = IF IsFolder(e) THEN IndexStoreRemoveFolders(store, {e})
                      ELSE IndexStoreRemoveFiles(store, {e})
    /\ call' = [call EXCEPT !.op = "remove"]
    /\ UNCHANGED <<disk, engine_vars>>

NextStore == StoreStart \/ StoreAddEntries \/ StoreRemoveEntries

SpecStore == InitStore /\ [][NextStore]_vars

-----------------------------------------------------------------------------
(* The include manager, as test_database_include_manager exercises it *)

MaxIncludeOps == 4

\* fsearch_database_include_new: an include object at the address ptr
IncludeNew(ptr, path, one_file_system, monitor, scan_after_load, id) ==
    [ptr |-> ptr, path |-> path, one_file_system |-> one_file_system,
     monitor |-> monitor, scan_after_load |-> scan_after_load, id |-> id]

\* the includes of the test, and one more of either path
IncludeValues ==
    {IncludeNew(0, "/home/user_1", TRUE, TRUE, FALSE, 1),
     IncludeNew(0, "/home/user_2", FALSE, FALSE, TRUE, 2),
     IncludeNew(0, "/home/user_1", TRUE, FALSE, FALSE, 3),
     IncludeNew(0, "/home/user_2", FALSE, FALSE, FALSE, 4)}

\* fsearch_database_include_copy: the same fields at a new address
IncludeCopy(include, ptr) == [include EXCEPT !.ptr = ptr]

\* an equality of addresses
IncludeEqualPointer(a, b) == a.ptr = b.ptr

\* fsearch_database_include_equal: by the fields, not by the address
IncludeEqual(a, b) == [a EXCEPT !.ptr = 0] = [b EXCEPT !.ptr = 0]

\* fsearch_database_include_manager_new
IncludeManagerNew(ptr) == [ptr |-> ptr, includes |-> <<>>]

\* fsearch_database_include_manager_get_includes
IncludeManagerGetIncludes(m) == m.includes

\* an add that never looks for an equal include
IncludeManagerAddAlways(m, include) ==
    [m EXCEPT !.includes = Append(@, include)]

\* fsearch_database_include_manager_add: an include equal to one that is
\* held is not added
IncludeManagerAdd(m, include) ==
    IF \E i \in 1..Len(m.includes) : IncludeEqual(m.includes[i], include)
    THEN m
    ELSE [m EXCEPT !.includes = Append(@, include)]

\* fsearch_database_include_manager_remove
IncludeManagerRemove(m, include) ==
    [m EXCEPT !.includes = SelectSeq(@, LAMBDA x : ~IncludeEqual(x, include))]

\* fsearch_database_include_manager_copy: a new manager at ptr that holds a
\* copy of every include, at the addresses after ptr
IncludeManagerCopy(m, ptr) ==
    [ptr |-> ptr,
     includes |-> [i \in 1..Len(m.includes) |-> IncludeCopy(m.includes[i], ptr + i)]]

\* an equality of addresses
IncludeManagerEqualPointer(a, b) == a.ptr = b.ptr

\* fsearch_database_include_manager_equal of two manager objects: the same
\* number of includes, equal one by one
IncludeManagerEqualObjects(a, b) ==
    /\ Len(a.includes) = Len(b.includes)
    /\ \A i \in 1..Len(a.includes) : IncludeEqual(a.includes[i], b.includes[i])

\* the test has created its manager; it has no copy yet; next is the next free
\* address, nops the number of calls made
InitInclude ==
    /\ work_queue = <<>> /\ wq_pc = "idle" /\ cur = NoWork /\ prev = NoPrev
    /\ pre = NoPre /\ loc = NoLocals /\ flags = 0
    /\ search_results = [id \in ViewIds |-> NoView]
    /\ mutex = "none" /\ mon_pc = "idle" /\ idle = <<>> /\ delivered = <<>>
    /\ reply = NoReply /\ nev = 0 /\ nqueued = 0 /\ nstores = 0 /\ nmon = 0
    /\ store = NoStore /\ disk = NoDisk /\ call = NoCall
    /\ test = [unit |-> "include", op |-> "new", manager |-> IncludeManagerNew(1),
               copy |-> IncludeManagerNew(0), copied |-> FALSE, equal |-> FALSE,
               next |-> 2, nops |-> 0]

\* every variable but test
rest_vars == <<work_queue, wq_pc, cur, prev, pre, loc, store, flags, search_results,
               mutex, mon_pc, idle, delivered, nqueued, nstores, nmon, nev, reply,
               disk, call>>

\* fsearch_database_include_new and fsearch_database_include_manager_add
IncludeAdd ==
    /\ test.nops < MaxIncludeOps
    /\ \E v \in IncludeValues :
          test' = [test EXCEPT
                     !.op = "add",
                     !.manager = IncludeManagerAdd(@, IncludeCopy(v, test.next)),
                     !.next = @ + 1, !.nops = @ + 1]
    /\ UNCHANGED rest_vars

\* fsearch_database_include_copy of an include of the array get_includes
\* returned, and fsearch_database_include_manager_add of the copy
IncludeAddCopy ==
    /\ test.nops < MaxIncludeOps
    /\ \E i \in 1..Len(IncludeManagerGetIncludes(test.manager)) :
          test' = [test EXCEPT
                     !.op = "add_copy",
                     !.manager = IncludeManagerAdd(
                                     @, IncludeCopy(IncludeManagerGetIncludes(@)[i],
                                                    test.next)),
                     !.next = @ + 1, !.nops = @ + 1]
    /\ UNCHANGED rest_vars

\* fsearch_database_include_manager_remove of an include of the array
\* get_includes returned
IncludeRemove ==
    /\ test.nops < MaxIncludeOps
    /\ \E i \in 1..Len(IncludeManagerGetIncludes(test.manager)) :
          test' = [test EXCEPT
                     !.op = "remove",
                     !.manager = IncludeManagerRemove(
                                     @, IncludeManagerGetIncludes(@)[i]),
                     !.nops = @ + 1]
    /\ UNCHANGED rest_vars

\* fsearch_database_include_manager_copy
IncludeManagerCopied ==
    /\ test.nops < MaxIncludeOps
    /\ test' = [test EXCEPT
                  !.op = "copy",
                  !.copy = IncludeManagerCopy(test.manager, test.next),
                  !.copied = TRUE,
                  !.next = @ + Len(test.manager.includes) + 1, !.nops = @ + 1]
    /\ UNCHANGED rest_vars

\* fsearch_database_include_manager_equal(include_manager, include_manager_copy)
IncludeCompare ==
    /\ test.copied /\ test.op # "equal"
    /\ test' = [test EXCEPT
                  !.op = "equal",
                  !.equal = IncludeManagerEqualObjects(test.manager, test.copy)]
    /\ UNCHANGED rest_vars

NextInclude ==
    IncludeAdd \/ IncludeAddCopy \/ IncludeRemove \/ IncludeManagerCopied \/ IncludeCompare

SpecInclude == InitInclude /\ [][NextInclude]_vars

-----------------------------------------------------------------------------
(* The names of one block, written and read back *)

MaxNameLen == 4
MaxNames == 2

\* the names of a block: strings over two characters, some longer than the
\* largest uint8_t
NameChars == {"a", "b"}
Names == UNION {[1..n -> NameChars] : n \in 0..MaxNameLen}
NameBlocks == UNION {[1..n -> Names] : n \in 1..MaxNames}

\* the names of the entries of a block, before save_folders or save_files
InitNames ==
    /\ work_queue = <<>> /\ wq_pc = "idle" /\ cur = NoWork /\ prev = NoPrev
    /\ pre = NoPre /\ loc = NoLocals /\ flags = 0
    /\ search_results = [id \in ViewIds |-> NoView]
    /\ mutex = "none" /\ mon_pc = "idle" /\ idle = <<>> /\ delivered = <<>>
    /\ reply = NoReply /\ nev = 0 /\ nqueued = 0 /\ nstores = 0 /\ nmon = 0
    /\ store = NoStore /\ disk = NoDisk /\ call = NoCall
    /\ \E names \in NameBlocks :
          test = [unit |-> "names", op |-> "new", names |-> names,
                  records |-> <<>>, loaded |-> <<>>]

\* save_folders / save_files: one record for every name of the block
NamesSave ==
    /\ test.unit = "names" /\ test.op = "new"
    /\ test' = [test EXCEPT !.op = "saved", !.records = SaveNames(test.names, <<>>)]
    /\ UNCHANGED rest_vars

\* load_folders / load_files: the names rebuilt from the records
NamesLoad ==
    /\ test.unit = "names" /\ test.op = "saved"
    /\ test' = [test EXCEPT
                  !.op = "loaded",
                  !.loaded = LET rs == [i \in 1..Len(test.records) |->
                                           [name_offset |-> test.records[i].name_offset,
                                            name |-> test.records[i].name,
                                            size |-> -1, mtime |-> -1, parent_idx |-> 0]]
                                 ns == LoadNames(rs, <<>>)
                             IN [i \in 1..Len(ns) |-> ns[i].name]]
    /\ UNCHANGED rest_vars

NextNames == NamesSave \/ NamesLoad

SpecNames == InitNames /\ [][NextNames]_vars

-----------------------------------------------------------------------------
(* Properties *)

\* the handler of a work item of this kind has returned and no other work
\* item has been popped since
Done(kind) == wq_pc = "idle" /\ cur.kind = kind

FinishedTypes ==
    {"load-finished", "save-finished", "scan-finished", "search-finished",
     "sort-finished"}

\* a handler posts its started event before its finished event
Rank(type) == IF type \in FinishedTypes THEN 2 ELSE 1

\* the events of q that work-item handlers posted
HandlerEvents(q) == SelectSeq(q, LAMBDA ev : ev.w > 0)

\* no event of q comes after an event of a later work item, or after the
\* finished event of its own work item
InPostOrder(q) ==
    \A i, j \in DOMAIN q :
        i < j => \/ q[i].w < q[j].w
                 \/ q[i].w = q[j].w /\ Rank(q[i].type) <= Rank(q[j].type)

\* C1: work items are handled one at a time in the order they were pushed
\* (the items still queued are exactly the ones pushed after the one being
\* handled, in push order), and the events are dispatched in the order they
\* were posted: the event dispatched last and the ones still waiting never
\* hold an event of an earlier work item after an event of a later one.
C1_EnqueueOrder ==
    /\ \A i \in DOMAIN work_queue : work_queue[i].seq = cur.seq + i
    /\ cur.seq + Len(work_queue) = nqueued
    /\ InPostOrder(HandlerEvents(delivered \o idle))
    /\ \A i \in DOMAIN idle : idle[i].w <= cur.seq

\* an event of one work item was dispatched while an event of a later work
\* item waits and a further work item is queued
C1_Witness ==
    /\ delivered # <<>>
    /\ delivered[1].w >= 1
    /\ \E i \in DOMAIN idle : idle[i].w > delivered[1].w
    /\ work_queue # <<>>

\* C2: once the LoadFromFile handler has returned, load-started and
\* load-finished were posted once each, in that order, and the engine holds a
\* store.
C2_LoadLeavesStore ==
    Done("LoadFromFile") =>
        /\ loc.posted = <<"load-started", "load-finished">>
        /\ store.ok

SameConfig(a, b) ==
    /\ IncludeManagerEqual(a.inc, b.inc)
    /\ ExcludeManagerEqual(a.exc, b.exc)
    /\ a.flags = b.flags

ScanPair == <<"scan-started", "scan-finished">>

C4_AnyDifferenceRebuilds ==
    (/\ Done("Scan")
     /\ pre.store_ok
     /\ \/ ~IncludeManagerEqual(cur.inc, pre.inc)
        \/ ~ExcludeManagerEqual(cur.exc, pre.exc)
        \/ cur.flags # pre.store_flags) =>
        /\ ~loc.skipped
        /\ loc.posted = ScanPair
        /\ store.sid # pre.sid

\* C5: whenever the work-queue thread does not hold the mutex, every
\* registered view was built from the installed store (so whoever acquires
\* the mutex never finds a view of a replaced store), and once a Scan or
\* Rescan that rebuilt the store has returned no view is registered.
C5_SwapAndClearTogether ==
    /\ mutex # "wq" =>
          \A id \in ViewIds :
              search_results[id].ok => search_results[id].sid = store.sid
    /\ ((Done("Scan") \/ Done("Rescan")) /\ ~loc.skipped) =>
          RegisteredViews(search_results) = {}

\* a Scan replaced a store that a view had been built from
C5_Witness ==
    /\ Done("Scan") /\ ~loc.skipped
    /\ pre.store_ok /\ pre.views # {}
    /\ store.sid # pre.sid

\* the engine the handler found when it was popped, as far as scan_database's
\* test reads it
PreStore == [ok |-> pre.store_ok, inc |-> pre.inc, exc |-> pre.exc]

\* what a returned handler has done when it rebuilt the store for this config:
\* posted one scan-started/scan-finished pair, installed and monitors a new
\* store of this config, set the flags, left no view registered
Rebuilt(inc, exc, fl) ==
    /\ loc.posted = ScanPair
    /\ store.ok /\ store.sid # pre.sid /\ store.monitoring
    /\ store.inc = inc /\ store.exc = exc /\ store.flags = fl
    /\ flags = fl
    /\ RegisteredViews(search_results) = {}

\* what a returned handler has done when it did what a Scan carrying this
\* config does to the engine it found
ScanEffect(inc, exc, fl) ==
    IF ScanSkips(PreStore, inc, exc)
    THEN /\ loc.posted = <<>>
         /\ store.sid = pre.sid
         /\ flags = pre.flags
         /\ RegisteredViews(search_results) = pre.views
    ELSE Rebuilt(inc, exc, fl)

\* C6 as stated: once a Rescan has returned, events, store, flags and views
\* are what a Scan carrying the installed store's managers and the engine's
\* flags leaves.
C6_RescanIsScanOfCurrent ==
    (Done("Rescan") /\ pre.store_ok) => ScanEffect(pre.inc, pre.exc, pre.flags)

\* C6, amended: ScanEffect is what every Scan leaves; a Rescan of an engine
\* that holds a store makes no config comparison and leaves what a Scan that
\* is not skipped leaves for the installed store's managers and the engine's
\* flags; a Rescan of an engine without a store posts scan-started and its
\* handler never returns.
C6_RescanAlwaysRebuilds ==
    /\ Done("Scan") => ScanEffect(cur.inc, cur.exc, cur.flags)
    /\ (Done("Rescan") /\ pre.store_ok) => Rebuilt(pre.inc, pre.exc, pre.flags)
    /\ (cur.kind = "Rescan" /\ ~pre.store_ok) =>
          /\ wq_pc \in {"rescan", "rescan_build", "crashed"}
          /\ wq_pc # "rescan" => loc.posted = <<"scan-started">>
    /\ wq_pc = "crashed" => cur.kind = "Rescan" /\ ~pre.store_ok

\* a Rescan replaced a store that a view had been built from
C6_Witness ==
    /\ Done("Rescan")
    /\ pre.store_ok /\ pre.views # {}
    /\ store.sid # pre.sid

\* C7: once the handler of a Scan, Rescan, Search or Sort whose token was
\* tripped has returned, the installed store and the flags are the ones it
\* found.
C7_CancelledLeavesStore ==
    (/\ wq_pc = "idle"
     /\ cur.kind \in {"Scan", "Rescan", "Search", "Sort"}
     /\ cur.cancelled) =>
        /\ store.ok = pre.store_ok
        /\ store.sid = pre.sid
        /\ flags = pre.flags

\* C8: once the Search handler has returned, a view of its query is
\* registered under its view id and the counts it reported are that view's.
C8_SearchRegistersMatches ==
    Done("Search") =>
        /\ loc.found
        /\ search_results[cur.view_id].ok
        /\ search_results[cur.view_id].query = cur.query
        /\ \E i \in DOMAIN idle :
              /\ idle[i].w = cur.seq /\ idle[i].type = "search-finished"
              /\ idle[i].num_files = loc.num_files
              /\ idle[i].num_folders = loc.num_folders

\* C9: once the Search handler has returned, a search-finished event for its
\* view id has been posted.
C9_SearchAlwaysFinishes ==
    Done("Search") =>
        \E i \in DOMAIN idle :
            /\ idle[i].w = cur.seq
            /\ idle[i].type = "search-finished"
            /\ idle[i].id = cur.view_id

\* C10: once the Sort handler has returned, the sort-started event it posted
\* for its view id is followed by a sort-finished event for that view id.
C10_SortAlwaysFinishes ==
    Done("Sort") =>
        \E i, j \in DOMAIN idle :
            /\ i < j
            /\ idle[i].w = cur.seq /\ idle[j].w = cur.seq
            /\ idle[i].type = "sort-started" /\ idle[i].id = cur.view_id
            /\ idle[j].type = "sort-finished" /\ idle[j].id = cur.view_id

\* the two selection sets of a view
SelectionOf(v) == <<v.file_selection, v.folder_selection>>

\* C11: the step in which sort_database sorts changes nothing but the sort
\* key, the secondary key and the direction of the view of its view id: that
\* view's entries and selection sets, every other view, the store and the
\* flags are what they were.
C11_SortInPlace ==
    [][(wq_pc = "sort_lock" /\ wq_pc' = "idle") =>
          LET v == search_results[cur.view_id]
              v2 == search_results'[cur.view_id]
          IN /\ store' = store
             /\ flags' = flags
             /\ \A id \in ViewIds \ {cur.view_id} :
                   search_results'[id] = search_results[id]
             /\ v2.file_container = v.file_container
             /\ v2.folder_container = v.folder_container
             /\ SelectionOf(v2) = SelectionOf(v)
             /\ v2 = [v EXCEPT !.sort_order = v2.sort_order,
                               !.secondary_sort_order = v2.secondary_sort_order,
                               !.sort_type = v2.sort_type]]_vars

\* a view with selected entries was sorted by name, descending, next to
\* another registered view
C11_Witness ==
    /\ Done("Sort") /\ cur.view_id = 1
    /\ loc.posted = <<"sort-started", "sort-finished">>
    /\ search_results[1].sort_order = "Name" /\ search_results[1].sort_type = "Desc"
    /\ search_results[1].file_selection # {}
    /\ search_results[2].ok

\* C12: once the handler of a Clear, All or Invert on a registered view has
\* returned, selection-changed was posted and both selection sets are empty /
\* hold every entry of the view / hold the entries that were not selected,
\* whatever start_idx was.
C12_IndexFreeKindsAlwaysApply ==
    (/\ Done("ModifySelection")
     /\ cur.sel_type \in {"Clear", "All", "Invert"}
     /\ search_results[cur.view_id].ok) =>
        LET v == search_results[cur.view_id]
            all == <<v.file_container.es, v.folder_container.es>>
            before == pre.sel[cur.view_id]
        IN /\ loc.posted = <<"selection-changed">>
           /\ cur.sel_type = "Clear" => SelectionOf(v) = <<{}, {}>>
           /\ cur.sel_type = "All" => SelectionOf(v) = all
           /\ cur.sel_type = "Invert" =>
                 SelectionOf(v) = <<all[1] \ before[1], all[2] \ before[2]>>

\* C13: for every registered view and all indices a and b, SelectRange(a, b)
\* and SelectRange(b, a) leave the same view and agree on whether
\* selection-changed is posted, and so do ToggleRange(a, b) and
\* ToggleRange(b, a).
C13_RangeEndpointsCommute ==
    \A id \in ViewIds : \A t \in RangeTypes : \A a \in Indices : \A b \in Indices :
        search_results[id].ok =>
            ModifySelectionResult(search_results[id], t, a, b)
                = ModifySelectionResult(search_results[id], t, b, a)

\* the work item is the ToggleRange that was handled just before it, again
ToggledTwice ==
    /\ Done("ModifySelection") /\ cur.sel_type = "ToggleRange"
    /\ prev.item.kind = "ModifySelection" /\ prev.item.sel_type = "ToggleRange"
    /\ prev.item.view_id = cur.view_id
    /\ prev.item.start_idx = cur.start_idx /\ prev.item.end_idx = cur.end_idx

\* C14: when a ToggleRange has been handled right after the same ToggleRange
\* on the same view, the view's selection sets are the ones the first of the
\* two found; and for every registered view and all indices a and b, applying
\* ToggleRange(a, b) to what ToggleRange(a, b) leaves gives back the
\* selection sets of the view.
C14_ToggleRangeTwice ==
    /\ ToggledTwice =>
          SelectionOf(search_results[cur.view_id]) = prev.sel[cur.view_id]
    /\ \A id \in ViewIds : \A a \in Indices : \A b \in Indices :
          search_results[id].ok =>
              LET v == search_results[id]
                  once == ModifySelectionResult(v, "ToggleRange", a, b).view
                  twice == ModifySelectionResult(once, "ToggleRange", a, b).view
              IN SelectionOf(twice) = SelectionOf(v)

\* the same ToggleRange was handled twice in a row and changed the selection
\* both times
C14_Witness ==
    /\ ToggledTwice
    /\ prev.posted = <<"selection-changed">>
    /\ loc.posted = <<"selection-changed">>
    /\ cur.start_idx # cur.end_idx
    /\ search_results[cur.view_id].file_container.es # {}

\* the entries es as the sequence in the order of key
SortedSeq(es, key) ==
    CHOOSE sq \in [1..Cardinality(es) -> es] :
        \A i, j \in 1..Cardinality(es) :
            i < j => KeyRank(key, sq[i]) < KeyRank(key, sq[j])

\* the folders of a view in sort order, then its files in sort order
ViewSequence(v) ==
    SortedSeq(v.folder_container.es, v.sort_order)
        \o SortedSeq(v.file_container.es, v.sort_order)

\* C15: for every registered view with F folders and N files and every index
\* of the word, get_entry_for_idx gives, ascending, the element at position
\* idx of [folders, then files], descending the element at position
\* F+N-1-idx of it, and null for every idx >= F+N.
C15_GetEntry ==
    \A id \in ViewIds : \A idx \in 0..(UintModulus - 1) :
        LET v == search_results[id]
            sq == ViewSequence(v)
        IN v.ok =>
             GetEntryForIdx(v, idx) =
                 IF idx >= Len(sq) THEN NullEntry
                 ELSE IF v.sort_type = "Desc" THEN sq[Len(sq) - 1 - idx + 1]
                 ELSE sq[idx + 1]

\* item-info-ready was posted for index 1 of a descending view of three entries
C15_Witness ==
    /\ search_results[1].sort_type = "Desc"
    /\ Len(ViewSequence(search_results[1])) = 3
    /\ \E i \in DOMAIN idle :
          /\ idle[i].type = "item-info-ready"
          /\ idle[i].idx = 1
          /\ idle[i].entry = ViewSequence(search_results[1])[2]

\* C16: a fsearch_database_try_get_* call can be made in every state of a
\* live engine; it leaves everything but its own result as it was, and its
\* result is Busy exactly when the mutex is held at the call.
C16_TryGetNeverBlocks ==
    /\ [](Alive => (ENABLED TryGetSearchInfo /\ ENABLED TryGetItemInfo
                       /\ ENABLED TryGetDatabaseInfo))
    /\ [][reply' # reply =>
             /\ UNCHANGED <<disk, call, test, work_queue, wq_pc, cur, prev, pre, loc, store,
                   flags,
                            search_results, mutex, mon_pc, idle, delivered,
                            nqueued, nstores, nmon, nev>>
             /\ reply'.op \in {"search_info", "item_info", "database_info"}
             /\ (reply'.res = "Busy") <=> (mutex # "none")]_vars

\* try_get_search_info answered Busy inside a bracket of the monitor
C16_Witness ==
    /\ reply = [op |-> "search_info", res |-> "Busy"]
    /\ mutex = "mon"
    /\ mon_pc = "in"

\* C17: no event that was posted was posted by a thread that held the mutex
\* at the emission.
C17_NoEmissionUnderMutex ==
    \A i \in DOMAIN idle : ~idle[i].held

\* C18: the monitor thread is inside a bracket exactly when it holds the
\* mutex; every step that applies an entry event is made with the mutex held
\* by the monitor thread before and after it; while a bracket is open no
\* other step changes the store or a view, no Search reads the store, and
\* every fsearch_database_try_get_* call answers Busy.
C18_BracketUnderMutex ==
    /\ []((mon_pc = "in") <=> (mutex = "mon"))
    /\ [][/\ nev' # nev => (mutex = "mon" /\ mutex' = "mon")
          /\ (mon_pc = "in" /\ nev' = nev) =>
                (store' = store /\ search_results' = search_results)
          /\ (wq_pc = "search_body" \/ wq_pc' = "search_body") => mon_pc # "in"
          /\ (mon_pc = "in" /\ reply' # reply) => reply'.res = "Busy"]_vars

\* inside a bracket that has applied an entry event, a Search waits for the
\* mutex and a reader was answered Busy
C18_Witness ==
    /\ mon_pc = "in" /\ mutex = "mon"
    /\ nev > 0
    /\ store # ViewStore
    /\ wq_pc = "search"
    /\ reply.res = "Busy"

\* the entries of the store's containers by name
StoreEntries(st) ==
    st.file_container["Name"].es \cup st.folder_container["Name"].es

\* the entries of a view
ViewEntries(v) == v.file_container.es \cup v.folder_container.es

\* C19: the step of an EntryCreated event adds the created entries to every
\* maintained container of the store of their type and to no other; every
\* registered view gains, in the container of their type, exactly the
\* created entries its query matches, grows by their number and keeps its
\* selections, key and direction; an unregistered view stays unregistered.
C19_EntryCreated ==
    [][(mon_pc = "in" /\ nev' # nev /\ StoreEntries(store') \ StoreEntries(store) # {}) =>
          LET created == StoreEntries(store') \ StoreEntries(store)
              files == {e \in created : ~IsFolder(e)}
              folders == {e \in created : IsFolder(e)}
          IN /\ \A k \in AllKeys :
                   /\ store'.file_container[k].ok = store.file_container[k].ok
                   /\ store'.folder_container[k].ok = store.folder_container[k].ok
                   /\ store'.file_container[k].es =
                        IF store.file_container[k].ok
                        THEN store.file_container[k].es \cup files
                        ELSE store.file_container[k].es
                   /\ store'.folder_container[k].es =
                        IF store.folder_container[k].ok
                        THEN store.folder_container[k].es \cup folders
                        ELSE store.folder_container[k].es
             /\ \A id \in ViewIds :
                   LET v == search_results[id]
                       v2 == search_results'[id]
                       matching == {e \in created : QueryMatch(v.query, e)}
                   IN IF ~v.ok THEN v2 = v
                      ELSE /\ v2.file_container.es =
                                v.file_container.es \cup (matching \cap files)
                           /\ v2.folder_container.es =
                                v.folder_container.es \cup (matching \cap folders)
                           /\ Cardinality(ViewEntries(v2)) =
                                Cardinality(ViewEntries(v)) + Cardinality(matching)
                           /\ v2 = [v EXCEPT
                                      !.file_container.es = v2.file_container.es,
                                      !.folder_container.es = v2.folder_container.es]]_vars

\* f2 was created in a bracket: it is in the store and in view 1, whose query
\* matches it, and not in the registered view 2, whose query does not
C19_Witness ==
    /\ mon_pc = "in" /\ nev > 0
    /\ "f2" \in StoreEntries(store)
    /\ search_results[1].ok /\ QueryMatch(search_results[1].query, "f2")
    /\ "f2" \in search_results[1].file_container.es
    /\ Cardinality(search_results[1].file_container.es) = 3
    /\ search_results[2].ok /\ ~QueryMatch(search_results[2].query, "f2")
    /\ "f2" \notin ViewEntries(search_results[2])

\* the number of database-changed events among the events q
RECURSIVE NumDatabaseChanged(_)
NumDatabaseChanged(q) ==
    IF q = <<>> THEN 0
    ELSE NumDatabaseChanged(Tail(q))
            + (IF Head(q).type = "database-changed" THEN 1 ELSE 0)

\* C20: as many database-changed events were posted as brackets were closed;
\* the step that closes a bracket posts one, as the last event of the step,
\* with the numbers of files and of folders the store holds at that step, and
\* no other step posts one.
C20_OneDatabaseChangedPerBracket ==
    /\ [](NumDatabaseChanged(idle) = nmon - (IF mon_pc = "idle" THEN 0 ELSE 1))
    /\ [][IF mon_pc = "in" /\ mon_pc' = "idle"
          THEN /\ NumDatabaseChanged(idle') = NumDatabaseChanged(idle) + 1
               /\ Len(idle') > Len(idle)
               /\ LET ev == idle'[Len(idle')]
                  IN /\ ev.type = "database-changed"
                     /\ ev.num_files = Cardinality(store.file_container["Name"].es)
                     /\ ev.num_folders = Cardinality(store.folder_container["Name"].es)
                     /\ store' = store
          ELSE NumDatabaseChanged(idle') = NumDatabaseChanged(idle)]_vars

\* a bracket that created f2 was closed: the last event posted is a
\* database-changed with the three files and one folder of the store
C20_Witness ==
    /\ mon_pc = "idle" /\ nmon > 0 /\ nev > 0
    /\ "f2" \in StoreEntries(store)
    /\ Len(idle) > 0
    /\ idle[Len(idle)].type = "database-changed"
    /\ idle[Len(idle)].num_files = 3
    /\ idle[Len(idle)].num_folders = 1

\* C21: the step of an EntryDeleted event leaves the deleted entries in no
\* container of the store, in no container of a registered view and in no
\* selection set of a registered view.
C21_EntryDeleted ==
    [][(mon_pc = "in" /\ nev' # nev /\ StoreEntries(store) \ StoreEntries(store') # {}) =>
          \A e \in StoreEntries(store) \ StoreEntries(store') :
              /\ \A k \in AllKeys : /\ e \notin store'.file_container[k].es
                                    /\ e \notin store'.folder_container[k].es
              /\ \A id \in ViewIds :
                    search_results'[id].ok =>
                        /\ e \notin ViewEntries(search_results'[id])
                        /\ e \notin search_results'[id].file_selection
                        /\ e \notin search_results'[id].folder_selection]_vars

\* f1 was deleted in a bracket after every entry of view 1 had been selected:
\* the rest of the selection is still there, f1 is in no view
C21_Witness ==
    /\ mon_pc = "in" /\ nev > 0
    /\ "f1" \in StoreEntries(ViewStore) \ StoreEntries(store)
    /\ search_results[1].ok /\ QueryMatch(search_results[1].query, "f1")
    /\ search_results[1].folder_selection = {"d1"}
    /\ "f1" \notin search_results[1].file_selection
    /\ \A id \in ViewIds : "f1" \notin ViewEntries(search_results[id])
    /\ search_results[2].ok

\* the ids of the stores that have not been freed: the installed one and the
\* one a Scan or Rescan handler has built and still holds
LiveStores ==
    (IF store.ok THEN {store.sid} ELSE {})
        \cup (IF wq_pc \in {"scan_lock", "scan_swap", "rescan_lock", "rescan_swap"}
              THEN {loc.new_store.sid} ELSE {})

\* C22: in every state, the entries of every registered view were read from a
\* store that has not been freed.
C22_NoViewOfFreedStore ==
    \A id \in ViewIds : search_results[id].ok => search_results[id].sid \in LiveStores

\* C23: once a SaveToFile work item on a started store has been handled, the
\* snapshot directory holds a snapshot file, and the handler posted
\* save-started and then save-finished.
C23_SaveToFileSerializes ==
    (Done("SaveToFile") /\ store.ok /\ store.running) =>
        /\ disk.db.kind = "snapshot"
        /\ loc.posted = <<"save-started", "save-finished">>

\* the name-sorted folders and files of the store a snapshot was taken of
SavedFolders == ContainerGetJoined(IndexStoreGetFolders(store, "Name"), "Name")
SavedFiles == ContainerGetJoined(IndexStoreGetFiles(store, "Name"), "Name")

\* the records decoded from a block are the entries es, in order, with their
\* names, their sizes and times where the flags keep them, and their parents
DecodedAs(recs, es, is_dir) ==
    /\ Len(recs) = Len(es)
    /\ \A i \in 1..Len(es) :
          /\ recs[i].name = EntryName(es[i])
          /\ HasFlagBit(store.flags, FlagSize) => recs[i].size = EntrySize(es[i])
          /\ HasFlagBit(store.flags, FlagMTime) => recs[i].mtime = EntryMTime(es[i])
          /\ recs[i].parent_idx =
                IF EntryParent(es[i]) # NullEntry
                THEN EntryIdx(SavedFolders, EntryParent(es[i]))
                ELSE i - 1

\* the file decodes to the entries of the store in name order
C24_DecodesEntries ==
    /\ DecodedAs(DbFileParse(disk.db).folders, SavedFolders, TRUE)
    /\ DecodedAs(DbFileParse(disk.db).files, SavedFiles, FALSE)

\* the triples of the file are the orderings of the store for the keys after
\* Name that have containers
C24_DecodesOrderings ==
    \A id \in 1..(NumDatabaseIndexProperties - 1) :
        LET key == KeyOfId[id + 1]
        IN store.file_container[key].ok =>
              \E i \in 1..Len(DbFileParse(disk.db).sorted) :
                 LET t == DbFileParse(disk.db).sorted[i]
                 IN /\ t.id = id
                    /\ [j \in 1..Len(t.files) |-> SavedFiles[t.files[j] + 1]]
                          = ContainerGetJoined(store.file_container[key], key)
                    /\ [j \in 1..Len(t.folders) |-> SavedFolders[t.folders[j] + 1]]
                          = ContainerGetJoined(store.folder_container[key], key)

\* C24: when db_file_load reads the file that a db_file_save of the store has
\* just written and returned true for, it succeeds and hands out a store with
\* the same entries in name order and the same orderings for every sort key,
\* and the file's num_sorted_arrays is the number of triples in it.
C24_SnapshotRoundTrip ==
    (call.op = "load" /\ call.saved /\ call.second = "none") =>
        /\ disk.db.num_sorted_arrays = Len(disk.db.sorted)
        /\ call.res
        /\ C24_DecodesEntries
        /\ C24_DecodesOrderings
        /\ call.store_out.ok
        /\ call.store_out.file_container = store.file_container
        /\ call.store_out.folder_container = store.folder_container

\* C25: from the first step of a db_file_save that no other call interferes
\* with until after its return, fsearch.db is the file that was there before
\* the call or the complete snapshot of the store; when the call has returned
\* false, fsearch.db is the file that was there before and fsearch.db.tmp does
\* not exist.
C25_SaveAtomic ==
    (call.op = "save" /\ call.second = "none") =>
        /\ disk.db \in {call.old, DbFileEncode(store)}
        /\ (call.pc = "done" /\ ~call.res) =>
              (disk.db = call.old /\ disk.tmp = NoFile)

\* C26: a second db_file_save that finds fsearch.db.tmp locked fails without
\* changing the directory: the lock holder's file keeps its contents and its
\* name.
C26_FailedOpenLeavesFile ==
    [][(call.second # call'.second) =>
          /\ call'.second \in {"fail", "done"}
          /\ disk'.tmp = disk.tmp
          /\ disk'.linked = disk.linked]_vars

\* C27: db_file_load gets past load_header exactly for the files whose magic
\* is FSDB, whose major version is 1 and whose minor version is 0 or 1.
C27_HeaderValidation ==
    (call.op = "load" /\ disk.db.kind = "snapshot") =>
        (call.header <=>
            /\ disk.db.magic = "FSDB"
            /\ disk.db.majorver = 1
            /\ disk.db.minorver \in {0, 1})

\* C27, amended: db_file_load gets past load_header exactly for the files
\* whose magic is FSDB, whose major version is 1 and whose minor version is 0;
\* a minor version of 1 or more is rejected.
C27_HeaderValidationAmended ==
    (call.op = "load" /\ disk.db.kind = "snapshot") =>
        (call.header <=>
            /\ disk.db.magic = "FSDB"
            /\ disk.db.majorver = 1
            /\ disk.db.minorver = 0)

\* a file with magic FSDB and version 1.1 was loaded and rejected
C27_Witness ==
    /\ call.op = "load" /\ call.pc = "done"
    /\ disk.db.kind = "snapshot" /\ disk.db.magic = "FSDB"
    /\ disk.db.majorver = 1 /\ disk.db.minorver = 1
    /\ ~call.header /\ ~call.res

\* the store has no member index and no container, and is not running
StoreEmpty ==
    /\ store.indices = {} /\ call.members = <<>>
    /\ \A k \in AllKeys : ~store.file_container[k].ok /\ ~store.folder_container[k].ok
    /\ ~store.running

\* both containers of the key exist and hold exactly the entries es
HoldsExactly(k, es) ==
    /\ store.file_container[k].ok /\ store.folder_container[k].ok
    /\ store.file_container[k].es = {e \in es : ~IsFolder(e)}
    /\ store.folder_container[k].es = {e \in es : IsFolder(e)}

\* C28: when index_store_start has returned from a store that was not running,
\* with a cancellable that never tripped, the store is running and sorted, its
\* member indices have distinct ids that all belong to includes whose scan
\* succeeded, and for Name, Path, Size, MTime and Ext both containers exist and
\* hold exactly the entries of the member indices; a start on a running store
\* changes neither the store nor its members.
C28_StartPostcondition ==
    /\ []((call.op = "start" /\ call.cancel = "never" /\ ~call.before.running) =>
            /\ store.running /\ store.is_sorted
            /\ \A i, j \in 1..Len(call.members) :
                  i # j => call.members[i] # call.members[j]
            /\ {call.members[i] : i \in 1..Len(call.members)} = store.indices
            /\ store.indices \subseteq call.scanned
            /\ store.indices \subseteq {call.includes[i] : i \in 1..Len(call.includes)}
            /\ \A k \in SortKeys :
                  HoldsExactly(k, UNION {ScanEntries(i) : i \in store.indices}))
    /\ [][(call'.op = "start" /\ store.running) =>
             (store' = store /\ call'.members = call.members)]_vars

\* a start without cancellation on a manager that holds two descriptors of one
\* id, one include failing to scan: the store runs with the entries of include 1
C28_Witness ==
    /\ call.op = "start" /\ call.cancel = "never" /\ ~call.before.running
    /\ Len(call.includes) > Cardinality(store.inc)
    /\ store.inc = IncB /\ call.scanned = {1}
    /\ store.running /\ call.members = <<1>>
    /\ store.file_container["Ext"].es = {"f1"}

\* C29: when index_store_start returns and the cancellable tripped at some
\* point of the call, the store has no member index, no container, and is not
\* running.
C29_CancelLeavesEmpty ==
    (call.op = "start" /\ call.cancel # "never") => StoreEmpty

\* C29, amended: when index_store_start returns from a store that was not
\* running and found the cancellable tripped at one of its two checks, the
\* store has no member index, no container, and is not running; a cancellable
\* that trips after the second check is not noticed, the store is running with
\* both containers of Name, Path, Size, MTime and Ext.
C29_CancelObserved ==
    (call.op = "start" /\ ~call.before.running) =>
        /\ call.cancel \in {"scan", "sort"} => StoreEmpty
        /\ call.cancel = "late" =>
              /\ store.running
              /\ \A k \in SortKeys :
                    HoldsExactly(k, UNION {ScanEntries(i) : i \in store.indices})

\* the cancellable tripped while the containers of two scanned includes were
\* built: the store is empty and not running
C29_Witness ==
    /\ call.op = "start" /\ call.cancel = "sort" /\ ~call.before.running
    /\ call.scanned = IncB /\ store.inc = IncB
    /\ StoreEmpty /\ store.is_sorted

\* C30: once index_store_start has returned, and after every add and remove,
\* every key has both containers or neither, and the number of fast sort
\* indices is the number of folder containers and the number of file
\* containers.
C30_ContainersPaired ==
    (call.op \in {"start", "add", "remove"}) =>
        /\ \A k \in AllKeys : store.file_container[k].ok <=> store.folder_container[k].ok
        /\ IndexStoreGetNumFastSortIndices(store)
              = Cardinality({k \in AllKeys : store.folder_container[k].ok})
        /\ IndexStoreGetNumFastSortIndices(store)
              = Cardinality({k \in AllKeys : store.file_container[k].ok})

\* a running store whose only folder was removed and to which f2 was added
C30_Witness ==
    /\ call.op \in {"add", "remove"} /\ store.running
    /\ store.folder_container["Name"].es = {}
    /\ "f2" \in store.file_container["Size"].es
    /\ IndexStoreGetNumFastSortIndices(store) = Cardinality(SortKeys)

\* C31: a copy of an include manager is equal to the manager it was made of,
\* and a manager from which one of its includes has been removed is not equal
\* to a manager that was equal to it before.
C31_ManagerEqualByValue ==
    /\ [](test.unit = "include" /\ test.op = "copy" =>
            IncludeManagerEqualObjects(test.manager, test.copy))
    /\ [][(test.unit = "include" /\ test'.op = "remove" /\ test.copied
             /\ IncludeManagerEqualObjects(test.manager, test.copy)) =>
                ~IncludeManagerEqualObjects(test'.manager, test'.copy)]_vars

\* the steps of the test: two includes added, the manager copied and found
\* equal, one include removed, the two found different
C31_Witness ==
    /\ test.unit = "include" /\ test.op = "equal" /\ ~test.equal
    /\ Len(test.copy.includes) = 2 /\ Len(test.manager.includes) = 1
    /\ test.copy.ptr # test.manager.ptr
    /\ IncludeEqual(test.copy.includes[2], test.manager.includes[1])
    /\ test.copy.includes[2].ptr # test.manager.includes[1].ptr

\* C32: adding an include that is equal to one the manager holds leaves the
\* number of includes get_includes returns unchanged, and the manager never
\* holds two equal includes.
C32_AddEqualIsNoOp ==
    /\ [](test.unit = "include" =>
            \A i, j \in 1..Len(test.manager.includes) :
                IncludeEqual(test.manager.includes[i], test.manager.includes[j])
                    => i = j)
    /\ [][(test.unit = "include" /\ test'.op = "add_copy") =>
             Len(IncludeManagerGetIncludes(test'.manager))
                = Len(IncludeManagerGetIncludes(test.manager))]_vars

\* a copy of the one include left after a remove was added: still one include,
\* the one that was there
C32_Witness ==
    /\ test.unit = "include" /\ test.op = "add_copy" /\ test.nops = 4
    /\ Len(test.manager.includes) = 1
    /\ test.manager.includes[1].ptr < test.next - 1

\* the length of the common prefix of two names
RECURSIVE CommonPrefix(_, _)
CommonPrefix(a, b) ==
    IF a = <<>> \/ b = <<>> \/ Head(a) # Head(b) THEN 0
    ELSE 1 + CommonPrefix(Tail(a), Tail(b))

\* the name written before the i-th of the block
PreviousName(i) == IF i = 1 THEN <<>> ELSE test.names[i - 1]

\* C33: for a block of names none longer than the largest uint8_t, every
\* record holds the length of the common prefix with the previous name as
\* name_offset, both name_offset and name_len fit a uint8_t, a record with
\* name_len = 0 stands for the first name_offset characters of the previous
\* name, and the names read back are the names written, in order.
C33_NameDeltaRoundTrip ==
    (/\ test.unit = "names" /\ test.op \in {"saved", "loaded"}
     /\ \A i \in 1..Len(test.names) : Len(test.names[i]) <= ByteMax) =>
        /\ Len(test.records) = Len(test.names)
        /\ \A i \in 1..Len(test.names) :
              LET r == test.records[i]
              IN /\ r.name_offset = CommonPrefix(PreviousName(i), test.names[i])
                 /\ r.name_offset \in 0..ByteMax /\ r.name_len \in 0..ByteMax
                 /\ Len(r.name) = r.name_len
                 /\ r.name_len = 0 =>
                       test.names[i] = SubSeq(PreviousName(i), 1, r.name_offset)
        /\ test.op = "loaded" => test.loaded = test.names

\* "ab" then "a" were written and read back: the second record has
\* name_offset 1 and no characters
C33_Witness ==
    /\ test.unit = "names" /\ test.op = "loaded"
    /\ test.names = <<(<<"a", "b">>), (<<"a">>)>>
    /\ test.records[2].name_offset = 1 /\ test.records[2].name_len = 0
    /\ test.loaded = test.names

\* the work-queue thread holds the mutex and joins the monitor thread of the
\* store it releases, while that thread is inside a StartModifying callback
\* waiting for the mutex: neither can take another step
SwapDeadlock ==
    /\ wq_pc \in {"scan_swap", "rescan_swap"} /\ mutex = "wq"
    /\ ~CanJoinMonitor(store)
    /\ mon_pc = "waitlock"

\* C34: a store swap and a StartModifying event of the old store's monitor
\* never block each other: whenever the handler is at the swap, it can release
\* the old store or the monitor thread can go on.
C34_NoSwapDeadlock ==
    ~SwapDeadlock
        /\ (wq_pc \in {"scan_swap", "rescan_swap"} =>
               (ENABLED (ScanSwap \/ RescanSwap) \/ ENABLED MonNext))

\* C35: whenever the work-queue thread is between two work items (or has left
\* its loop) and the monitor has no bracket open, nobody holds the mutex.
C35_MutexFreeBetweenItems ==
    (wq_pc \in {"idle", "exited"} /\ mon_pc # "in") => mutex = "none"

\* a Search without a store has returned early, and a Sort of a view that is
\* not registered has
C35_Witness ==
    /\ wq_pc = "idle" /\ mon_pc # "in" /\ mutex = "none"
    /\ \/ cur.kind = "Search" /\ ~store.ok
       \/ cur.kind = "Sort" /\ ~search_results[cur.view_id].ok /\ store.ok

\* the containers a store maintains for one entry type all hold the entries
\* of the Name container, and the count read from Name is the count of each
SameEntriesInAll(containers, num) ==
    \A k \in AllKeys :
        containers[k].ok =>
            /\ containers["Name"].ok
            /\ containers[k].es = containers["Name"].es
            /\ NumEntries(containers[k]) = num

\* C36: after index_store_start and any sequence of added and removed entries
\* every maintained file container holds the same set of files and every
\* maintained folder container the same set of folders, and num_files and
\* num_folders are the entry counts of each of them.
C36_ContainersAgree ==
    /\ SameEntriesInAll(store.file_container, IndexStoreGetNumFiles(store))
    /\ SameEntriesInAll(store.folder_container, IndexStoreGetNumFolders(store))

\* a started store whose containers were changed by an event: a file the scan
\* did not find is in them, or a file the scan found is not
C36_Witness ==
    /\ call.op \in {"add", "remove"}
    /\ store.running
    /\ store.file_container["Size"].ok
    /\ store.file_container["Size"].es #
           {e \in UNION {ScanEntries(i) : i \in store.indices} : ~IsFolder(e)}

\* C37: the file selection of every registered view holds only files of the
\* view's file container and its folder selection only folders of its folder
\* container, in every state.
C37_SelectionWithinView ==
    \A id \in ViewIds :
        search_results[id].ok =>
            /\ search_results[id].file_selection \subseteq
                   search_results[id].file_container.es
            /\ search_results[id].folder_selection \subseteq
                   search_results[id].folder_container.es

\* view 1 had every entry selected, then the selected file f1 was deleted and
\* another entry was created: the selection is not empty and is smaller than
\* the view
C37_Witness ==
    /\ mon_pc = "idle" /\ nev > 1
    /\ search_results[1].ok
    /\ "f1" \in StoreEntries(ViewStore) \ StoreEntries(store)
    /\ QueryMatch(search_results[1].query, "f1")
    /\ search_results[1].file_selection \cup search_results[1].folder_selection # {}
    /\ search_results[1].file_selection \cup search_results[1].folder_selection
           # ViewEntries(search_results[1])

\* C38: a monitor bracket is always a bracket of the installed store, which is
\* being monitored, and every deleted entry of an EntryDeleted event belongs to
\* one of the installed store's indices, so the handler goes on; no store is
\* swapped in while a bracket is open or waited for.
C38_ReportingIndexIsMember ==
    /\ [](mon_pc # "idle" => (store.ok /\ store.monitoring /\ store.indices # {}))
    /\ [][(mon_pc # "idle" /\ mon_pc' # "idle") =>
              (store'.sid = store.sid /\ store'.indices = store.indices)]_vars
    /\ [][(mon_pc = "in" /\ nev' # nev /\ StoreEntries(store) \ StoreEntries(store') # {}) =>
              /\ \A e \in StoreEntries(store) \ StoreEntries(store') :
                     IndexOf(e) \in store.indices
              /\ wq_pc' # "crashed"]_vars

\* an entry of the second store installed was deleted in a bracket of its
\* monitor
C38_Witness ==
    /\ mon_pc = "in" /\ nev > 0
    /\ store.ok /\ store.sid > 1
    /\ \E e \in UNION {ScanEntries(i) : i \in store.indices} :
           e \notin StoreEntries(store)

\* a Quit item is in the queue
QuitQueued == \E i \in 1..Len(work_queue) : work_queue[i].kind = "Quit"

\* C39: items are taken in the order they were queued, one after the other,
\* so every item queued before a Quit has been taken when the Quit is; once
\* the Quit is taken the thread has left its loop and takes no other item; and
\* a queued Quit is taken in the end, unless a handler before it never returns
\* (the process aborts, or the swap waits for the monitor thread for ever).
C39_QuitDrainsThenStops ==
    /\ [][cur' # cur => (cur'.seq = cur.seq + 1 /\ cur.kind # "Quit")]_vars
    /\ [](wq_pc = "exited" <=> cur.kind = "Quit")
    /\ [][wq_pc = "exited" => (wq_pc' = "exited" /\ cur' = cur)]_vars
    /\ (QuitQueued ~> (wq_pc \in {"exited", "crashed"} \/ SwapDeadlock))

\* the thread has left its loop at a Quit that was queued third, and the item
\* queued after it is still in the queue
C39_Witness ==
    /\ wq_pc = "exited"
    /\ cur.kind = "Quit" /\ cur.seq = 3
    /\ Len(work_queue) = 1 /\ work_queue[1].seq = 4

\* C40: whenever the Rescan handler is about to build its new store, a store
\* is installed and the managers read from it are not null.
C40_RescanHasStore ==
    wq_pc = "rescan_build" =>
        /\ store.ok
        /\ GetIncludeManager(store) # NoMgr
        /\ GetExcludeManager(store) # "none"

====
